---------------------------- MODULE Spec2Model ----------------------------
(***************************************************************************)
(* Be-Humming: the quality search (binary search over an encoder quality), *)
(* the best-of selection over pipelines, and the batch dispatcher of the   *)
(* four mods (perceptual, lossless, jpeg_binary_search, hybrid_perceptual).*)
(***************************************************************************)
EXTENDS Integers, Sequences, FiniteSets, TLC

(***************************************************************************)
(* Bounds of the model.                                                    *)
(***************************************************************************)
\* Qualities of the exhaustively explored search ranges are 0..QMax.
QMax == 3
\* Encoded files are 1..MaxSize units long (bytes, or KB in the mods that
\* compare a size with a target in KB); an input file is longer.
MaxSize == 2
\* A batch holds at most MaxFiles input files, on a pool of MaxWorkers.
MaxFiles == 2
MaxWorkers == 2

(***************************************************************************)
(* Program constants.                                                      *)
(***************************************************************************)
\* Python's None for a metric value or a quality (all real values are >= 0).
NoneVal == -1
\* --min-q / --max-q defaults of the two searching mods.
DefaultMinQ == 30
DefaultMaxQ == 95
\* --target-psnr default 38.0; --target-ssim default 0.995, in thousandths;
\* --target-butter default 1.0, in tenths.
TargetPsnr == 38
TargetSsim == 995
TargetButter == 10
\* The fixed search ranges of hybrid_perceptual's WebP and AVIF pipelines.
WebpMinQ == 10
WebpMaxQ == 100
AvifMinQ == 10
AvifMaxQ == 90
\* Bytes per KB, as lossless and jpeg_binary_search convert a size target.
KB == 1024

(***************************************************************************)
(* Metric values a metric evaluation can return.  psnr is a number         *)
(* (compute_mse_psnr returns 0.0 when it cannot compute); ssim and butter  *)
(* are a number or None.                                                   *)
(***************************************************************************)
PsnrVals == {NoneVal, 0, TargetPsnr - 1, TargetPsnr}
SsimVals == {NoneVal, TargetSsim - 1, TargetSsim}
ButterVals == {NoneVal, TargetButter, TargetButter + 1}

Metrics == [psnr : PsnrVals, ssim : SsimVals, butter : ButterVals]
NoMetrics == [psnr |-> NoneVal, ssim |-> NoneVal, butter |-> NoneVal]

\* The arguments the threshold reads: target_butter is 0 (falsy) or the
\* target, use_ssim a flag.
ArgsSet == [target_butter : {0, TargetButter}, use_ssim : BOOLEAN,
            target_ssim : {TargetSsim}, target_psnr : {TargetPsnr}]

\* The two search functions of the repository.
SearchFns == {"binary_search_quality", "find_best_jpeg"}

(***************************************************************************)
(* The threshold decision of binary_search_quality (hybrid_perceptual).    *)
(***************************************************************************)
\* A decision that looks at the SSIM before the butteraugli distance.
passes_bsq_ssim_first(a, m) ==
    IF a.use_ssim /\ m.ssim # NoneVal
    THEN m.ssim >= a.target_ssim
    ELSE IF a.target_butter # 0 /\ m.butter # NoneVal
         THEN m.butter <= a.target_butter
         ELSE (IF m.psnr = NoneVal \/ m.psnr = 0 THEN 0 ELSE m.psnr) >= a.target_psnr

\* if args.target_butter and m.get("butter") is not None: ...
\* elif args.use_ssim and m.get("ssim") is not None: ...
\* else: passes = (m.get("psnr") or 0) >= args.target_psnr
passes_bsq(a, m) ==
    IF a.target_butter # 0 /\ m.butter # NoneVal
    THEN m.butter <= a.target_butter
    ELSE IF a.use_ssim /\ m.ssim # NoneVal
         THEN m.ssim >= a.target_ssim
         ELSE (IF m.psnr = NoneVal \/ m.psnr = 0 THEN 0 ELSE m.psnr) >= a.target_psnr

(***************************************************************************)
(* The threshold decision of find_best_jpeg (jpeg_binary_search): ssim is  *)
(* computed only with use_ssim, and a missing psnr does not pass.          *)
(***************************************************************************)
passes_fbj(a, m) ==
    LET ssim_val == IF a.use_ssim THEN m.ssim ELSE NoneVal
    IN  IF a.use_ssim /\ ssim_val # NoneVal
        THEN ssim_val >= a.target_ssim
        ELSE IF m.psnr # NoneVal THEN m.psnr >= a.target_psnr ELSE FALSE

passes(f, a, m) ==
    IF f = "binary_search_quality" THEN passes_bsq(a, m) ELSE passes_fbj(a, m)

(***************************************************************************)
(* The state of one search: lo, hi, best (the quality of the recorded      *)
(* candidate, or None) and the candidate files its temporary directory     *)
(* holds (by quality).                                                     *)
(***************************************************************************)
MaxOfOr(S, d) == IF S = {} THEN d ELSE CHOOSE x \in S : \A y \in S : y <= x
\* A search that starts one quality above the range.
search_init_wide(l, h) == [lo |-> l, hi |-> h + 1, best |-> NoneVal, cands |-> {}]
\* lo, hi = min_q, max_q; best = None
search_init(l, h) == [lo |-> l, hi |-> h, best |-> NoneVal, cands |-> {}]

\* A loop that runs once more after the range has emptied.
search_running_once_more(s) == s.lo <= s.hi + 1

\* while lo <= hi
search_running(s) == s.lo <= s.hi

\* A scan from the bottom of the range.
mid_of_bottom(s) == s.lo
\* mid = (lo + hi) // 2
mid_of(s) == (s.lo + s.hi) \div 2

\* A failed encode that ends the search.
search_encode_aborts(s) == [s EXCEPT !.lo = s.hi + 1]
\* if not ok: lo = mid + 1; continue
search_encode_failed(s) == [s EXCEPT !.lo = mid_of(s) + 1]

\* if passes: best = {...mid...}; hi = mid - 1
\* A passed midpoint after which the search goes on upwards.
search_passed_upwards(s) ==
    [s EXCEPT !.best = mid_of(s), !.lo = mid_of(s) + 1, !.cands = @ \cup {mid_of(s)}]
search_passed(s) ==
    [s EXCEPT !.best = mid_of(s), !.hi = mid_of(s) - 1,
              !.cands = @ \cup {mid_of(s)}]

\* else: lo = mid + 1
\* A failed midpoint that skips the quality next to it.
search_failed_skipping(s) ==
    [s EXCEPT !.lo = mid_of(s) + 2, !.cands = @ \cup {mid_of(s)}]
search_failed(s) ==
    [s EXCEPT !.lo = mid_of(s) + 1, !.cands = @ \cup {mid_of(s)}]

\* One iteration of the loop, given the encode's outcome and the metrics.
search_step(f, a, s, ok, m) ==
    IF ~ok THEN search_encode_failed(s)
    ELSE IF passes(f, a, m) THEN search_passed(s)
    ELSE search_failed(s)

\* if best: return {"success": True, "q": best["q"], ...}
\* return {"success": False}
\* A result that is a success as soon as one midpoint encoded.
search_result_encoded(s) ==
    IF s.cands # {} THEN [success |-> TRUE, q |-> MaxOfOr(s.cands, NoneVal)]
    ELSE [success |-> FALSE, q |-> NoneVal]
search_result(s) ==
    IF s.best # NoneVal THEN [success |-> TRUE, q |-> s.best]
    ELSE [success |-> FALSE, q |-> NoneVal]

(***************************************************************************)
(* One encode attempt: utils.shell.run_cmd, the Pillow encoders and the    *)
(* metric functions, by what the process, the encoder and the candidate    *)
(* file turn out to be.                                                    *)
(***************************************************************************)
\* What Popen and communicate(timeout=...) can end with.
ProcOutcomes == {"notfound", "oserror", "timeout", "nonzero", "exit0"}
\* What img.save can end with.
SaveOutcomes == {"raised", "returned"}
\* The state of the expected output file once the encoder has ended.
Outputs == {"missing", "zero", "ok"}

Ran(ok, msg, killed) == [ok |-> ok, msg |-> msg, killed |-> killed]
NoRun == Ran(FALSE, "", FALSE)

\* A run_cmd that waits for the process however long it takes.
run_cmd_unbounded(o, expected, out) ==
    CASE o = "notfound" -> Ran(FALSE, "Command not found", FALSE)
      [] o = "oserror" -> Ran(FALSE, "An unexpected error occurred", FALSE)
      [] o = "nonzero" -> Ran(FALSE, "Command failed", FALSE)
      [] OTHER -> IF expected /\ out # "ok"
                  THEN Ran(FALSE, "Expected output not produced", FALSE)
                  ELSE Ran(TRUE, "output", FALSE)

\* run_cmd(cmd, expected_outpaths, timeout): (ok, text), and whether it
\* killed the process.
run_cmd(o, expected, out) ==
    CASE o = "notfound" -> Ran(FALSE, "Command not found", FALSE)
      [] o = "oserror" -> Ran(FALSE, "An unexpected error occurred", FALSE)
      [] o = "timeout" -> Ran(FALSE, "Command timed out", TRUE)
      [] o = "nonzero" -> Ran(FALSE, "Command failed", FALSE)
      [] OTHER -> IF expected /\ out # "ok"
                  THEN Ran(FALSE, "Expected output not produced", FALSE)
                  ELSE Ran(TRUE, "output", FALSE)

\* pillow_save_jpeg, pillow_save_webp, save_jpeg_pillow: True once img.save
\* has returned, False when it raised; the output file is not looked at.
pillow_save(o) ==
    IF o = "raised" THEN Ran(FALSE, "Pillow fail", FALSE) ELSE Ran(TRUE, "", FALSE)

\* compute_mse_psnr: 0.0 when the candidate cannot be opened, else its PSNR v
compute_mse_psnr(out, v) == IF out # "ok" THEN 0 ELSE v
\* compute_ssim_skimage: None when skimage is missing or the candidate
\* cannot be opened, else its SSIM v
compute_ssim_skimage(out, v) == IF out # "ok" THEN NoneVal ELSE v
\* run_butteraugli: None without the binary, when run_cmd fails, or when the
\* output holds no number (v = None)
run_butteraugli(bin, r, v) == IF ~bin \/ ~r.ok THEN NoneVal ELSE v

\* The encoder and the butteraugli binary a run has, and what its attempts
\* met: the outcome of each encoder call, and of the last attempt its
\* output file, the encoder's return and the butteraugli call's.
NoAttempt == [via |-> "none", butter_bin |-> FALSE, procs |-> <<>>,
              out |-> "missing", enc |-> NoRun, bproc |-> "none", but |-> NoRun]

(***************************************************************************)
(* perceptual.optimize_jpeg_advanced: the descending scan over the         *)
(* qualities, every encode written to the same out_file.                   *)
(***************************************************************************)
\* quality_start=90, quality_min=50; range(quality_start, quality_min - 1, -2)
ScanStart == 90
ScanMin == 50
ScanStride == 2
ScanQs == {q \in ScanMin..ScanStart : (ScanStart - q) % ScanStride = 0}

\* What is at out_file: nothing, the encoding at quality q, or what a failed
\* encoder left (a truncated or zero-byte file).
NoOut == [kind |-> "none", q |-> NoneVal]
Enc(q) == [kind |-> "enc", q |-> q]
Broken == [kind |-> "broken", q |-> NoneVal]

NoReturn == [ok |-> FALSE, q |-> NoneVal]

\* best_q, best_size = None, float('inf'); for q in range(...)
scan_init == [q |-> ScanStart, best_q |-> NoneVal, out |-> NoOut, tried |-> <<>>,
              pc |-> "loop", ret |-> NoReturn]
NoScan == [scan_init EXCEPT !.pc = "idle"]

\* A scan that gives up at the first encode that fails.
scan_encode_failed_stops(s, left) ==
    [s EXCEPT !.out = left, !.tried = Append(@, s.q), !.pc = "final"]

\* if not ok: continue
scan_encode_failed(s, left) ==
    [s EXCEPT !.q = @ - ScanStride, !.out = left, !.tried = Append(@, s.q)]

\* if current_ssim >= ssim_threshold: best_q, best_size = q, current_size
scan_passed(s) ==
    [s EXCEPT !.best_q = s.q, !.q = @ - ScanStride, !.out = Enc(s.q),
              !.tried = Append(@, s.q)]

\* else: break
scan_below(s) ==
    [s EXCEPT !.out = Enc(s.q), !.tried = Append(@, s.q), !.pc = "final"]

\* One iteration, given the class of the encode at s.q and what a failed
\* encoder leaves at out_file.
scan_step(s, c, left) ==
    CASE c = "encfail" -> scan_encode_failed(s, left)
      [] c = "pass" -> scan_passed(s)
      [] OTHER -> scan_below(s)

\* if best_q is not None: run_cmd(... best_q ...) (its result is not
\* looked at); return True, f"jpeg_q{best_q}...", out_file.stat().st_size,
\* which raises when nothing is at out_file.
\* else: if out_file.exists(): out_file.unlink(); return False, ..., None
scan_finish(s, ok, left) ==
    IF s.best_q # NoneVal
    THEN LET now == IF ok THEN Enc(s.best_q) ELSE left
         IN  IF now = NoOut
             THEN [s EXCEPT !.out = now, !.pc = "raised"]
             ELSE [s EXCEPT !.out = now, !.pc = "done",
                            !.ret = [ok |-> TRUE, q |-> s.best_q]]
    ELSE [s EXCEPT !.out = NoOut, !.pc = "done", !.ret = NoReturn]

(***************************************************************************)
(* State.                                                                  *)
(***************************************************************************)
VARIABLES
    fn,      \* the search function under way
    args,    \* its threshold arguments
    lo0,     \* the range the search was started with
    hi0,
    cls,     \* the encoder and metric, per quality: "encfail", "fail", "pass"
    srch,    \* the search state
    spc,     \* "idle" | "loop" | "done"
    sres,    \* the search's return value once done
    evald,   \* history: the midpoints evaluated, in order, with their outcome
    met,     \* the metrics of the last evaluation, where they are followed
    att,     \* the encode attempts, where they are followed
    scan,    \* optimize_jpeg_advanced's locals and out_file, where followed
    mod,     \* the mod whose run() is under way
    cfg,     \* its arguments and the binaries found (bins)
    files,   \* the input files of the batch, one job each
    workers, \* max_workers of the pool
    world,   \* what the batch is explored against: the encoder behaviours,
             \* the encoded sizes and the I/O faults that may happen
    jpc,     \* each job's position in process_file
    jst,     \* each job's local variables
    fs,      \* the files that exist: path -> content
    dirs,    \* the temporary directories that exist: id -> the job that made it
    fut,     \* each job's future
    results, \* run's results list
    seen,    \* the futures the as_completed loop has consumed
    rpc,     \* run's position
    hist     \* history: per job, what it created and what its encoders made

svars == <<fn, args, lo0, hi0, cls, srch, spc, sres, evald, met, att, scan>>
bvars == <<mod, cfg, files, workers, world, jpc, jst, fs, dirs, fut, results, seen, rpc, hist>>
vars == <<svars, bvars>>

Classes == {"encfail", "fail", "pass"}

\* passes iff quality >= t, every encode succeeding
MonoCls(l, h, t) == [q \in l..h |-> IF q >= t THEN "pass" ELSE "fail"]

NoResult == [success |-> FALSE, q |-> NoneVal]

\* No batch is under way.
BatchIdle ==
    /\ mod = "none" /\ cfg = <<>> /\ files = {} /\ workers = 0 /\ world = <<>>
    /\ jpc = <<>> /\ jst = <<>> /\ fs = <<>> /\ dirs = <<>> /\ fut = <<>>
    /\ results = <<>> /\ seen = {} /\ rpc = "idle" /\ hist = <<>>

SearchInit ==
    /\ fn \in SearchFns
    /\ args \in ArgsSet
    /\ \/ /\ lo0 \in 0..QMax
          /\ hi0 \in 0..QMax
          /\ cls \in [0..QMax -> Classes]
       \/ /\ lo0 = DefaultMinQ
          /\ hi0 = DefaultMaxQ
          /\ args.target_butter = 0 /\ ~args.use_ssim
          /\ \E t \in DefaultMinQ..DefaultMaxQ :
                cls = MonoCls(DefaultMinQ, DefaultMaxQ, t)
    /\ srch = search_init(lo0, hi0)
    /\ spc = "loop"
    /\ sres = NoResult
    /\ evald = <<>>
    /\ met = NoMetrics
    /\ att = NoAttempt
    /\ scan = NoScan
    /\ BatchIdle

\* What the encoder and the metric evaluator return at quality q.
EnvOutcomes(q) ==
    IF q \notin DOMAIN cls \/ cls[q] = "encfail"
    THEN {[ok |-> FALSE, m |-> [psnr |-> NoneVal, ssim |-> NoneVal, butter |-> NoneVal]]}
    ELSE {[ok |-> TRUE, m |-> m] : m \in
             {x \in Metrics : passes(fn, args, x) = (cls[q] = "pass")}}

SearchStep ==
    /\ spc = "loop"
    /\ search_running(srch)
    /\ \E o \in EnvOutcomes(mid_of(srch)) :
          /\ srch' = search_step(fn, args, srch, o.ok, o.m)
          /\ evald' = Append(evald, [q |-> mid_of(srch), ok |-> o.ok,
                                     pass |-> o.ok /\ passes(fn, args, o.m)])
    /\ UNCHANGED <<fn, args, lo0, hi0, cls, spc, sres, met, att, scan>>
    /\ UNCHANGED bvars

SearchReturn ==
    /\ spc = "loop"
    /\ ~search_running(srch)
    /\ spc' = "done"
    /\ sres' = search_result(srch)
    /\ UNCHANGED <<fn, args, lo0, hi0, cls, srch, evald, met, att, scan>>
    /\ UNCHANGED bvars

SearchNext == SearchStep \/ SearchReturn

SpecSearch == SearchInit /\ [][SearchNext]_vars

(***************************************************************************)
(* The threshold decision followed metric by metric: a search over one or  *)
(* two qualities whose encodes succeed, against every metrics result.      *)
(***************************************************************************)
ThresholdInit ==
    /\ fn \in SearchFns
    /\ args \in ArgsSet
    /\ lo0 = 0
    /\ hi0 \in 0..1
    /\ cls = <<>>
    /\ srch = search_init(lo0, hi0)
    /\ spc = "loop"
    /\ sres = NoResult
    /\ evald = <<>>
    /\ met = NoMetrics
    /\ att = NoAttempt
    /\ scan = NoScan
    /\ BatchIdle

\* m = metrics_fn(orig, cand, butter_bin); passes = ...; if passes: ...
ThresholdStep ==
    /\ spc = "loop"
    /\ search_running(srch)
    /\ \E m \in Metrics :
          /\ met' = m
          /\ srch' = search_step(fn, args, srch, TRUE, m)
          /\ evald' = Append(evald, [q |-> mid_of(srch), ok |-> TRUE,
                                     pass |-> passes(fn, args, m)])
    /\ UNCHANGED <<fn, args, lo0, hi0, cls, spc, sres, att, scan>>
    /\ UNCHANGED bvars

ThresholdNext == ThresholdStep \/ SearchReturn

SpecThreshold == ThresholdInit /\ [][ThresholdNext]_vars

(***************************************************************************)
(* The search followed encode by encode: each attempt runs its encoder     *)
(* (through run_cmd, or Pillow), then the metric functions on the          *)
(* candidate file.                                                         *)
(***************************************************************************)
\* --target-psnr takes any float.
AttemptArgs == [target_butter : {0, TargetButter}, use_ssim : BOOLEAN,
                target_ssim : {TargetSsim}, target_psnr : {0, TargetPsnr}]

\* make_jpeg, make_webp, make_avif go through run_cmd when the binary was
\* found and through Pillow otherwise; find_best_jpeg always uses Pillow
\* and has no butteraugli.
AttemptInit ==
    /\ fn \in SearchFns
    /\ args \in AttemptArgs
    /\ lo0 = 0
    /\ hi0 = 1
    /\ cls = <<>>
    /\ srch = search_init(lo0, hi0)
    /\ spc = "loop"
    /\ sres = NoResult
    /\ evald = <<>>
    /\ met = NoMetrics
    /\ \E v \in {"run_cmd", "pillow"}, b \in BOOLEAN :
          /\ fn = "find_best_jpeg" => (v = "pillow" /\ ~b /\ args.target_butter = 0)
          /\ att = [NoAttempt EXCEPT !.via = v, !.butter_bin = b]
    /\ scan = NoScan
    /\ BatchIdle

\* ok, note = make_cand_fn(mid, cand); if not ok: lo = mid + 1; continue
\* m = metrics_fn(orig, cand, butter_bin); passes = ...
\* find_best_jpeg stats the candidate it records, and raises when the file
\* is not there.  butteraugli does not succeed on a candidate it cannot
\* read.
AttemptStep ==
    /\ spc = "loop"
    /\ search_running(srch)
    /\ \E o \in (IF att.via = "run_cmd" THEN ProcOutcomes ELSE SaveOutcomes),
          out \in Outputs, bo \in ProcOutcomes,
          pv \in {TargetPsnr - 1, TargetPsnr}, sv \in SsimVals, bv \in ButterVals :
          LET r == IF att.via = "run_cmd" THEN run_cmd(o, TRUE, out)
                                          ELSE pillow_save(o)
              rb == run_cmd(bo, FALSE, out)
              m == [psnr |-> compute_mse_psnr(out, pv),
                    ssim |-> compute_ssim_skimage(out, sv),
                    butter |-> run_butteraugli(att.butter_bin, rb, bv)]
              evaluated == r.ok
              pass == evaluated /\ passes(fn, args, m)
          IN  /\ (out # "ok") => bo # "exit0"
              /\ (~evaluated \/ ~att.butter_bin) => (bo = "notfound" /\ bv = NoneVal)
              /\ (~evaluated) => (pv = TargetPsnr /\ sv = NoneVal)
              /\ att' = [att EXCEPT !.procs = Append(@, o), !.out = out, !.enc = r,
                                    !.bproc = IF evaluated /\ att.butter_bin
                                              THEN bo ELSE "none",
                                    !.but = IF evaluated /\ att.butter_bin
                                            THEN rb ELSE NoRun]
              /\ met' = IF evaluated THEN m ELSE NoMetrics
              /\ evald' = Append(evald, [q |-> mid_of(srch), ok |-> r.ok,
                                         pass |-> pass])
              /\ IF pass /\ fn = "find_best_jpeg" /\ out = "missing"
                 THEN spc' = "raised" /\ srch' = srch
                 ELSE spc' = spc /\ srch' = search_step(fn, args, srch, r.ok, m)
    /\ UNCHANGED <<fn, args, lo0, hi0, cls, sres, scan>>
    /\ UNCHANGED bvars

AttemptNext == AttemptStep \/ SearchReturn

SpecAttempt == AttemptInit /\ [][AttemptNext]_vars

(***************************************************************************)
(* optimize_jpeg_advanced against an encoder whose encodings meet the SSIM *)
(* threshold from a quality t on, and whose calls fail at up to two        *)
(* qualities; the final encode at best_q may fail as well.                 *)
(***************************************************************************)
ScanCls(t, F) ==
    [q \in ScanQs |-> IF q \in F THEN "encfail"
                      ELSE IF q >= t THEN "pass" ELSE "fail"]

ScanInit ==
    /\ fn = "optimize_jpeg_advanced"
    /\ args = [target_butter |-> 0, use_ssim |-> TRUE,
               target_ssim |-> TargetSsim, target_psnr |-> TargetPsnr]
    /\ lo0 = ScanMin
    /\ hi0 = ScanStart
    /\ \E t \in ScanQs \cup {ScanStart + ScanStride},
          a, b \in ScanQs \cup {NoneVal} :
          /\ a <= b
          /\ cls = ScanCls(t, {a, b} \ {NoneVal})
    /\ srch = search_init(0, 0)
    /\ spc = "idle"
    /\ sres = NoResult
    /\ evald = <<>>
    /\ met = NoMetrics
    /\ att = NoAttempt
    /\ scan = scan_init
    /\ BatchIdle

\* What a failed encoder call leaves at out_file.
LeftBy(s) == {s.out, NoOut, Broken}

ScanStep ==
    /\ scan.pc = "loop"
    /\ scan.q >= ScanMin
    /\ \E left \in (IF cls[scan.q] = "encfail" THEN LeftBy(scan) ELSE {scan.out}) :
          scan' = scan_step(scan, cls[scan.q], left)
    /\ UNCHANGED <<fn, args, lo0, hi0, cls, srch, spc, sres, evald, met, att>>
    /\ UNCHANGED bvars

\* The range is exhausted.
ScanEnd ==
    /\ scan.pc = "loop"
    /\ scan.q < ScanMin
    /\ scan' = [scan EXCEPT !.pc = "final"]
    /\ UNCHANGED <<fn, args, lo0, hi0, cls, srch, spc, sres, evald, met, att>>
    /\ UNCHANGED bvars

ScanFinish ==
    /\ scan.pc = "final"
    /\ \E ok \in BOOLEAN :
          \E left \in (IF ok \/ scan.best_q = NoneVal THEN {scan.out} ELSE LeftBy(scan)) :
             /\ (scan.best_q = NoneVal) => ok
             /\ scan' = scan_finish(scan, ok, left)
    /\ UNCHANGED <<fn, args, lo0, hi0, cls, srch, spc, sres, evald, met, att>>
    /\ UNCHANGED bvars

ScanNext == ScanStep \/ ScanEnd \/ ScanFinish

SpecScan == ScanInit /\ [][ScanNext]_vars

(***************************************************************************)
(* Files, paths and the file system.                                       *)
(***************************************************************************)
\* An input file is <<stem, extension>>, in the input directory.
FileUniverse == {<<"a", "png">>, <<"a", "jpg">>, <<"a", "jpeg">>, <<"b", "png">>}
NoFile == <<"", "">>

\* A directory is <<kind, job, n>>: the output directory, out_dir/"temp",
\* or the n-th directory tempfile.mkdtemp made for a job (mkdtemp returns a
\* fresh name at every call).
OutDir == <<"out", NoFile, 0>>
TempDir == <<"temp", NoFile, 0>>
NoDir == <<"none", NoFile, 0>>
mkdtemp(prefix, f, n) == <<prefix, f, n>>

\* A path is a directory and a file name <<stem, number, suffix>>.
Path(d, stem, n, suffix) == [dir |-> d, name |-> <<stem, n, suffix>>]
NoPath == Path(NoDir, "", 0, "")

\* in_path.name, in_path.stem
in_name(f) == <<f[1], 0, f[2]>>
stem(f) == f[1]

\* The size of an input file.
OrigBytes == MaxSize + 1

\* A file's content: the job whose step wrote it, and its size in bytes.
Content(f, sz) == [by |-> f, size |-> sz]

\* in_path where args.output is args.input (main.py accepts any two
\* directories), and the content the input has before the batch starts.
InPath(f) == [dir |-> OutDir, name |-> in_name(f)]
Original(f) == Content(NoFile, OrigBytes)

fs_write(F, p, c) == [x \in (DOMAIN F) \cup {p} |-> IF x = p THEN c ELSE F[x]]
fs_remove(F, P) == [x \in (DOMAIN F) \ P |-> F[x]]
\* shutil.move: os.rename, which replaces an existing destination
fs_move(F, src, dst) == fs_write(fs_remove(F, {src}), dst, F[src])
\* shutil.rmtree of a directory
fs_rmtree(F, d) == fs_remove(F, {p \in DOMAIN F : p.dir = d})
exists(F, p) == p \in DOMAIN F

(***************************************************************************)
(* The encoder and metric evaluator a job's search meets, per quality.     *)
(***************************************************************************)
\* The kinds of encoder and metric a job's search meets: every encode
\* fails ("encfail"), or every encode succeeds and the PSNR meets the target
\* from a threshold quality on: the bottom of the range ("low"), just above
\* the first midpoint ("mid"), or never ("none").
EnvThreshold(kind, l, h) ==
    CASE kind = "low" -> l
      [] kind = "mid" -> ((l + h) \div 2) + 1
      [] OTHER -> h + 1

\* What make_cand_fn and metrics_fn return at quality q.
EnvAt(kind, l, h, q) ==
    IF kind = "encfail"
    THEN [ok |-> FALSE, m |-> NoMetrics]
    ELSE [ok |-> TRUE,
          m |-> [psnr |-> IF q >= EnvThreshold(kind, l, h)
                          THEN TargetPsnr ELSE TargetPsnr - 1,
                 ssim |-> NoneVal, butter |-> NoneVal]]

\* The whole loop of a search over [l, h] against an encoder of that kind.
RECURSIVE run_search(_, _, _, _, _, _)
run_search(f, a, s, kind, l, h) ==
    IF search_running(s)
    THEN LET o == EnvAt(kind, l, h, mid_of(s))
         IN  run_search(f, a, search_step(f, a, s, o.ok, o.m), kind, l, h)
    ELSE s

\* Every behaviour, and the few a batch of several jobs is explored against.
FullWorld == [envs |-> {"encfail", "low", "mid", "none"},
              flat |-> {"encfail", "below", "ok"}, sizes |-> 1..MaxSize,
              faults |-> {"stat", "resize", "io"}, det |-> <<>>,
              in_place |-> FALSE]
SmallWorld == [envs |-> {"encfail", "low"},
               flat |-> {"below", "ok"}, sizes |-> 1..MaxSize,
               faults |-> {"stat"}, det |-> <<>>,
              in_place |-> FALSE]
\* Encoders whose behaviour changes from one call to the next.
AnyEnv(fmt) == {"encfail", "low", "none"}
\* The encoder and metric kinds, and the encoded sizes, a search for format
\* fmt may meet: the one of world.det where the encoders are deterministic.
EnvsFor(fmt) == IF fmt \in DOMAIN world.det THEN {world.det[fmt].env} ELSE world.envs
SizesFor(fmt) == IF fmt \in DOMAIN world.det THEN {world.det[fmt].sz} ELSE world.sizes
\* The outcomes of a call that the fault `k` may hit.
Ok(k) == IF k \in world.faults THEN BOOLEAN ELSE {TRUE}

(***************************************************************************)
(* Jobs, futures and results.                                              *)
(***************************************************************************)
Mods == {"perceptual", "lossless", "jpeg_binary_search", "hybrid_perceptual"}

NoRes == [file |-> NoFile, method |-> "none", q |-> NoneVal, final |-> NoneVal,
          error |-> ""]
\* A candidate of the best-of selection.
Cand(fmt, bytes, path, q) == [fmt |-> fmt, bytes |-> bytes, path |-> path, q |-> q]
NoCand == Cand("", NoneVal, NoPath, NoneVal)

Pending == [kind |-> "pending", res |-> NoRes]
Returned(r) == [kind |-> "returned", res |-> r]
Raised == [kind |-> "raised", res |-> NoRes]

JobInit == [cands |-> <<>>, best |-> NoCand, work |-> NoDir, work_in |-> FALSE,
            res |-> NoRes, n |-> 0, q_try |-> NoneVal, out |-> NoPath]
HistInit == [touched |-> {}, ev |-> <<>>, own |-> <<>>]


\* The last of the smallest.
min_by_bytes_last(cands) ==
    cands[CHOOSE i \in 1..Len(cands) :
            /\ \A k \in 1..Len(cands) : cands[i].bytes <= cands[k].bytes
            /\ \A k \in (i + 1)..Len(cands) : cands[k].bytes > cands[i].bytes]

\* min(candidates, key=lambda x: x["bytes"]): the first of the smallest
min_by_bytes(cands) ==
    cands[CHOOSE i \in 1..Len(cands) :
            /\ \A k \in 1..Len(cands) : cands[i].bytes <= cands[k].bytes
            /\ \A k \in 1..(i - 1) : cands[k].bytes > cands[i].bytes]

Running == {f \in files : jpc[f] \notin {"queued", "finished"}}

\* The job leaves process_file by an exception.
JobRaises(f) ==
    /\ jpc' = [jpc EXCEPT ![f] = "finished"]
    /\ fut' = [fut EXCEPT ![f] = Raised]

\* The job returns r.
JobReturns(f, r) ==
    /\ jpc' = [jpc EXCEPT ![f] = "finished"]
    /\ fut' = [fut EXCEPT ![f] = Returned(r)]

\* The paths P the job creates, overwrites, moves or deletes.
Touch(f, P) == hist' = [hist EXCEPT ![f].touched = @ \cup P]
\* An encoder call of the job that touches the paths P.
Encode(f, P) ==
    hist' = [hist EXCEPT ![f].touched = @ \cup P, ![f].ev = Append(@, "encode")]

(***************************************************************************)
(* hybrid_perceptual.process_file                                          *)
(***************************************************************************)
HybridArgs == [target_butter |-> TargetButter, use_ssim |-> FALSE,
               target_ssim |-> TargetSsim, target_psnr |-> TargetPsnr]

\* res = {..., "original_bytes": int(in_path.stat().st_size), ...}: outside
\* the try block; stat raises when the file has gone or cannot be read.
hybrid_stat(f) ==
    /\ mod = "hybrid_perceptual" /\ jpc[f] = "stat"
    /\ \E stat_ok \in Ok("stat") :
          IF stat_ok
          THEN /\ jpc' = [jpc EXCEPT ![f] = "mkwork"]
               /\ jst' = [jst EXCEPT ![f].res = [NoRes EXCEPT !.file = f]]
               /\ UNCHANGED fut
          ELSE JobRaises(f) /\ UNCHANGED jst
    /\ UNCHANGED <<fs, dirs, hist>>

\* workdir = Path(tempfile.mkdtemp(prefix="work_"))
hybrid_mkwork(f) ==
    /\ mod = "hybrid_perceptual" /\ jpc[f] = "mkwork"
    /\ LET d == mkdtemp("work_", f, jst[f].n)
       IN  /\ dirs' = fs_write(dirs, d, f)
           /\ jst' = [jst EXCEPT ![f].work = d, ![f].n = @ + 1]
           /\ hist' = [hist EXCEPT ![f].ev = Append(@, "mkdtemp")]
    /\ jpc' = [jpc EXCEPT ![f] = "resize"]
    /\ UNCHANGED <<fs, fut>>

\* resized, work_in = smart_resize_width_only(in_path, workdir / in_path.name)
\* writes the working copy, or returns its error text as work_in.
hybrid_resize(f) ==
    /\ mod = "hybrid_perceptual" /\ jpc[f] = "resize"
    /\ \E ok \in Ok("resize") :
          LET p == [dir |-> jst[f].work, name |-> in_name(f)]
          IN  IF ok
              THEN /\ fs' = fs_write(fs, p, Content(f, OrigBytes))
                   /\ jst' = [jst EXCEPT ![f].work_in = TRUE]
                   /\ Touch(f, {p})
              ELSE UNCHANGED <<fs, jst, hist>>
    /\ jpc' = [jpc EXCEPT ![f] = "jpeg"]
    /\ UNCHANGED <<dirs, fut>>

\* r = binary_search_quality(make_x, metrics_fn, work_in, lo, hi, args, ...)
\* if r["success"]: candidates.append({"fmt": ..., "bytes": stat, ...})
\* The search makes its own directory (mkdtemp(prefix="search_")), writes
\* q{mid}.tmp for every midpoint that encodes, moves the best one to
\* best_q{q}.bin, and removes nothing (finally: pass).
hybrid_search(f, fmt, l, h, next) ==
    \E env \in EnvsFor(fmt), sz \in SizesFor(fmt) :
        /\ (~jst[f].work_in) => env = "encfail"
        /\ \E s \in {run_search("binary_search_quality", HybridArgs,
                                search_init(l, h), env, l, h)} :
            \E d \in {mkdtemp("search_", f, jst[f].n)} :
            \E tmps \in {{Path(d, "q", q, ".tmp") : q \in s.cands}} :
              LET r == search_result(s)
                  dest == Path(d, "best_q", r.q, ".bin")
                  left == (tmps \ {Path(d, "q", s.best, ".tmp")})
                            \cup (IF r.success THEN {dest} ELSE {})
              IN  /\ dirs' = fs_write(dirs, d, f)
                  /\ fs' = [x \in (DOMAIN fs) \cup left |->
                               IF x \in DOMAIN fs THEN fs[x] ELSE Content(f, sz)]
                  /\ jst' = [jst EXCEPT
                               ![f].n = @ + 1,
                               ![f].cands = IF r.success
                                            THEN Append(@, Cand(fmt, sz, dest, r.q))
                                            ELSE @]
                  /\ hist' = [hist EXCEPT
                               ![f].touched = @ \cup tmps \cup left,
                               ![f].ev = Append(@, "encode"),
                               ![f].own = IF r.success
                                          THEN Append(@, Cand(fmt, sz, dest, r.q))
                                          ELSE @]
        /\ jpc' = [jpc EXCEPT ![f] = next]
        /\ UNCHANGED fut

hybrid_skip(f, next) ==
    /\ jpc' = [jpc EXCEPT ![f] = next]
    /\ UNCHANGED <<fs, dirs, jst, fut, hist>>

\* if args.mode in ("jpeg", "best"): search over [args.min_q, args.max_q]
hybrid_jpeg(f) ==
    /\ mod = "hybrid_perceptual" /\ jpc[f] = "jpeg"
    /\ hybrid_search(f, "jpg", cfg.min_q, cfg.max_q, "webp")

\* if args.mode == "best": search over [10, 100]
hybrid_webp(f) ==
    /\ mod = "hybrid_perceptual" /\ jpc[f] = "webp"
    /\ IF cfg.mode = "best"
       THEN hybrid_search(f, "webp", WebpMinQ, WebpMaxQ, "avif")
       ELSE hybrid_skip(f, "avif")

\* if args.mode == "best" and bins["avifenc"]: search over [10, 90]
hybrid_avif(f) ==
    /\ mod = "hybrid_perceptual" /\ jpc[f] = "avif"
    /\ IF cfg.mode = "best" /\ cfg.avifenc
       THEN hybrid_search(f, "avif", AvifMinQ, AvifMaxQ, "select")
       ELSE hybrid_skip(f, "select")

\* if candidates: best = min(...); shutil.move(best["path"], out_path) ...
\* else: shutil.copy2(in_path, out_dir / in_path.name); res["error"] = ...
\* except Exception as e: res["error"] = str(e)
hybrid_select(f) ==
    /\ mod = "hybrid_perceptual" /\ jpc[f] = "select"
    /\ \E io_ok \in Ok("io") :
          IF ~io_ok
          THEN /\ jst' = [jst EXCEPT ![f].res.error = "exception"]
               /\ UNCHANGED <<fs, hist>>
          ELSE IF jst[f].cands # <<>>
          THEN LET best == min_by_bytes(jst[f].cands)
                   out_path == Path(OutDir, stem(f), 0, best.fmt)
               IN  /\ fs' = fs_move(fs, best.path, out_path)
                   /\ jst' = [jst EXCEPT ![f].res.final = best.bytes,
                                         ![f].res.method = best.fmt,
                                         ![f].res.q = best.q]
                   /\ Touch(f, {best.path, out_path})
          ELSE IF world.in_place
          THEN /\ jst' = [jst EXCEPT ![f].res.error = "exception"]
               /\ UNCHANGED <<fs, hist>>
          ELSE LET out_path == [dir |-> OutDir, name |-> in_name(f)]
               IN  /\ fs' = fs_write(fs, out_path, Content(f, OrigBytes))
                   /\ jst' = [jst EXCEPT ![f].res.error = "No candidates met criteria"]
                   /\ Touch(f, {out_path})
    /\ jpc' = [jpc EXCEPT ![f] = "finally"]
    /\ UNCHANGED <<dirs, fut>>

\* finally: shutil.rmtree(str(workdir), ignore_errors=True); return res
hybrid_finally(f) ==
    /\ mod = "hybrid_perceptual" /\ jpc[f] = "finally"
    /\ fs' = fs_rmtree(fs, jst[f].work)
    /\ dirs' = fs_remove(dirs, {jst[f].work})
    /\ Touch(f, {p \in DOMAIN fs : p.dir = jst[f].work})
    /\ JobReturns(f, jst[f].res)
    /\ UNCHANGED jst

(***************************************************************************)
(* perceptual.process_file: every job works in out_dir/"temp", on files    *)
(* named after the input's stem.  The function has no try block.           *)
(***************************************************************************)
temp_resized_file(f) == [dir |-> TempDir, name |-> in_name(f)]
jpeg_out(f) == Path(TempDir, stem(f), 0, "_optim.jpg")
webp_out(f) == Path(TempDir, stem(f), 0, "webp")
avif_out(f) == Path(TempDir, stem(f), 0, "avif")

\* orig_size = in_path.stat().st_size; temp_dir.mkdir(exist_ok=True)
perceptual_stat(f) ==
    /\ mod = "perceptual" /\ jpc[f] = "stat"
    /\ \E stat_ok \in Ok("stat") :
          IF stat_ok
          THEN /\ jpc' = [jpc EXCEPT ![f] = "resize"]
               /\ jst' = [jst EXCEPT ![f].res = [NoRes EXCEPT !.file = f]]
               /\ UNCHANGED fut
          ELSE JobRaises(f) /\ UNCHANGED jst
    /\ UNCHANGED <<fs, dirs, hist>>

\* if args.resize: ok, note = resize_image(in_path, temp_resized_file, ...)
\*     if not ok: return {"file": ..., "error": f"Resize failed: {note}"}
perceptual_resize(f) ==
    /\ mod = "perceptual" /\ jpc[f] = "resize"
    /\ IF cfg.resize
       THEN \E ok \in Ok("resize") :
              IF ok
              THEN /\ fs' = fs_write(fs, temp_resized_file(f), Content(f, OrigBytes))
                   /\ Touch(f, {temp_resized_file(f)})
                   /\ jpc' = [jpc EXCEPT ![f] = "jpeg"]
                   /\ UNCHANGED <<jst, fut>>
              ELSE /\ JobReturns(f, [jst[f].res EXCEPT !.method = "", !.error = "Resize failed"])
                   /\ UNCHANGED <<fs, jst, hist>>
       ELSE /\ jpc' = [jpc EXCEPT ![f] = "jpeg"]
            /\ UNCHANGED <<fs, jst, fut, hist>>
    /\ UNCHANGED dirs

\* An encoder call of a flat pipeline writing `out`: it fails, or its output
\* misses the SSIM threshold and is unlinked (if out_file.exists():
\* out_file.unlink()), or it leaves this job's encoding, sz bytes long.
\* Without cv2, compute_ssim_cv2 returns None for the encoding that was
\* made, and comparing None with ssim_threshold raises TypeError.
perceptual_encode(f, fmt, out, stat_pc, next) ==
    \E o \in world.flat, sz \in world.sizes :
        IF o # "encfail" /\ ~cfg.cv2
        THEN /\ fs' = fs_write(fs, out, Content(f, sz))
             /\ hist' = [hist EXCEPT
                          ![f].touched = @ \cup {out},
                          ![f].ev = Append(Append(@, "encode"), "metric_unavailable")]
             /\ JobRaises(f)
             /\ UNCHANGED <<dirs, jst>>
        ELSE /\ CASE o = "encfail" ->
                       /\ jpc' = [jpc EXCEPT ![f] = next]
                       /\ Encode(f, {})
                       /\ UNCHANGED fs
                  [] o = "below" ->
                       /\ fs' = fs_remove(fs, {out})
                       /\ Encode(f, {out})
                       /\ jpc' = [jpc EXCEPT ![f] = next]
                  [] OTHER ->
                       /\ fs' = fs_write(fs, out, Content(f, sz))
                       /\ hist' = [hist EXCEPT
                                    ![f].touched = @ \cup {out},
                                    ![f].ev = Append(@, "encode"),
                                    ![f].own = Append(@, Cand(fmt, sz, out, NoneVal))]
                       /\ jpc' = [jpc EXCEPT ![f] = stat_pc]
             /\ UNCHANGED <<dirs, jst, fut>>

\* return True, method, out_file.stat().st_size: the size of whatever is at
\* out_file now; stat raises when nothing is.
perceptual_size(f, fmt, out, next) ==
    /\ IF exists(fs, out)
       THEN /\ jst' = [jst EXCEPT ![f].cands =
                          Append(@, Cand(fmt, fs[out].size, out, NoneVal))]
            /\ jpc' = [jpc EXCEPT ![f] = next]
            /\ UNCHANGED fut
       ELSE JobRaises(f) /\ UNCHANGED jst
    /\ UNCHANGED <<fs, dirs, hist>>

perceptual_skip(f, next) ==
    /\ jpc' = [jpc EXCEPT ![f] = next]
    /\ UNCHANGED <<fs, dirs, jst, fut, hist>>

\* if bins["cjpeg"]: ok, method, size = optimize_jpeg_advanced(...)
perceptual_jpeg(f) ==
    /\ mod = "perceptual" /\ jpc[f] = "jpeg"
    /\ IF cfg.cjpeg
       THEN perceptual_encode(f, "jpeg", jpeg_out(f), "jpeg_size", "webp")
       ELSE perceptual_skip(f, "webp")

perceptual_jpeg_size(f) ==
    /\ mod = "perceptual" /\ jpc[f] = "jpeg_size"
    /\ perceptual_size(f, "jpeg", jpeg_out(f), "webp")

\* A WebP pipeline that is attempted only when cjpeg was found too.
perceptual_webp_after_jpeg(f) ==
    /\ mod = "perceptual" /\ jpc[f] = "webp"
    /\ IF cfg.cjpeg /\ cfg.webp
       THEN perceptual_encode(f, "webp", webp_out(f), "webp_size", "avif")
       ELSE perceptual_skip(f, "avif")

\* if args.webp and bins["cwebp"]: ok, method, size = convert_to_webp(...)
perceptual_webp(f) ==
    /\ mod = "perceptual" /\ jpc[f] = "webp"
    /\ IF cfg.webp
       THEN perceptual_encode(f, "webp", webp_out(f), "webp_size", "avif")
       ELSE perceptual_skip(f, "avif")

perceptual_webp_size(f) ==
    /\ mod = "perceptual" /\ jpc[f] = "webp_size"
    /\ perceptual_size(f, "webp", webp_out(f), "avif")

\* if args.avif and bins["avifenc"]: ok, method, size = convert_to_avif(...)
perceptual_avif(f) ==
    /\ mod = "perceptual" /\ jpc[f] = "avif"
    /\ IF cfg.avif
       THEN perceptual_encode(f, "avif", avif_out(f), "avif_size", "select")
       ELSE perceptual_skip(f, "select")

perceptual_avif_size(f) ==
    /\ mod = "perceptual" /\ jpc[f] = "avif_size"
    /\ perceptual_size(f, "avif", avif_out(f), "select")

\* if not candidates: unlink temp_resized_file; return {... "method": "none",
\*     "error": "No compression method was successful ..."}
\* best_candidate = min(candidates, key=lambda x: x['size'])
\* shutil.move(best_candidate['file'], out_dir / best_candidate['file'].name)
perceptual_select(f) ==
    /\ mod = "perceptual" /\ jpc[f] = "select"
    /\ IF jst[f].cands = <<>>
       THEN /\ fs' = fs_remove(fs, {temp_resized_file(f)})
            /\ Touch(f, {temp_resized_file(f)} \cap DOMAIN fs)
            /\ JobReturns(f, [jst[f].res EXCEPT !.error = "No compression method was successful"])
            /\ UNCHANGED jst
       ELSE LET best == min_by_bytes(jst[f].cands)
                final_out_path == [dir |-> OutDir, name |-> best.path.name]
            IN  IF exists(fs, best.path)
                THEN /\ fs' = fs_move(fs, best.path, final_out_path)
                     /\ Touch(f, {best.path, final_out_path})
                     /\ jst' = [jst EXCEPT ![f].res.method = best.fmt,
                                           ![f].res.final = best.bytes]
                     /\ jpc' = [jpc EXCEPT ![f] = "cleanup"]
                     /\ UNCHANGED fut
                ELSE JobRaises(f) /\ UNCHANGED <<fs, jst, hist>>
    /\ UNCHANGED dirs

\* for cand in candidates: if cand['file'].exists(): cand['file'].unlink()
\* if temp_resized_file.exists(): temp_resized_file.unlink(); return {...}
perceptual_cleanup(f) ==
    /\ mod = "perceptual" /\ jpc[f] = "cleanup"
    /\ LET gone == ({jst[f].cands[i].path : i \in 1..Len(jst[f].cands)}
                      \cup {temp_resized_file(f)}) \cap DOMAIN fs
       IN  /\ fs' = fs_remove(fs, gone)
           /\ Touch(f, gone)
    /\ JobReturns(f, jst[f].res)
    /\ UNCHANGED <<dirs, jst>>

(***************************************************************************)
(* lossless.process_file: the candidates are written into out_dir itself.  *)
(* The function has no try block.                                          *)
(***************************************************************************)
lossless_out(f, suffix) == Path(OutDir, stem(f), 0, suffix)

\* orig_size = in_path.stat().st_size
lossless_stat(f) ==
    /\ mod = "lossless" /\ jpc[f] = "stat"
    /\ \E stat_ok \in Ok("stat") :
          IF stat_ok
          THEN /\ jpc' = [jpc EXCEPT ![f] = "pillow"]
               /\ jst' = [jst EXCEPT ![f].res = [NoRes EXCEPT !.file = f]]
               /\ UNCHANGED fut
          ELSE JobRaises(f) /\ UNCHANGED jst
    /\ UNCHANGED <<fs, dirs, hist>>

\* ok, note = <optimizer>(in_path, out, ...); if ok: candidates.append(...)
\* For the lossless WebP the candidate is kept only if files_identical: an
\* encoding that differs ("below") stays on disk without being a candidate.
lossless_encode(f, method, out, outcomes, next) ==
    \E o \in outcomes, sz \in world.sizes :
        /\ CASE o = "encfail" ->
                  /\ Encode(f, {})
                  /\ UNCHANGED <<fs, jst>>
             [] o = "below" ->
                  /\ fs' = fs_write(fs, out, Content(f, sz * KB))
                  /\ Encode(f, {out})
                  /\ UNCHANGED jst
             [] OTHER ->
                  /\ fs' = fs_write(fs, out, Content(f, sz * KB))
                  /\ jst' = [jst EXCEPT ![f].cands =
                                Append(@, Cand(method, NoneVal, out, NoneVal))]
                  /\ hist' = [hist EXCEPT ![f].touched = @ \cup {out},
                                          ![f].ev = Append(@, "encode"),
                                          ![f].own = Append(@, Cand(method, sz * KB, out, NoneVal))]
        /\ jpc' = [jpc EXCEPT ![f] = next]
        /\ UNCHANGED <<dirs, fut>>

lossless_skip(f, next) ==
    /\ jpc' = [jpc EXCEPT ![f] = next]
    /\ UNCHANGED <<fs, dirs, jst, fut, hist>>

lossless_pillow(f) ==
    /\ mod = "lossless" /\ jpc[f] = "pillow"
    /\ lossless_encode(f, "pillow", lossless_out(f, "_pillow.png"),
                       world.flat \ {"below"}, "oxipng")

\* if bins["oxipng"]:
lossless_oxipng(f) ==
    /\ mod = "lossless" /\ jpc[f] = "oxipng"
    /\ IF cfg.oxipng
       THEN lossless_encode(f, "oxipng", lossless_out(f, "_oxipng.png"),
                            world.flat \ {"below"}, "zopfli")
       ELSE lossless_skip(f, "zopfli")

\* if bins["zopflipng"]:
lossless_zopfli(f) ==
    /\ mod = "lossless" /\ jpc[f] = "zopfli"
    /\ IF cfg.zopflipng
       THEN lossless_encode(f, "zopfli", lossless_out(f, "_zopfli.png"),
                            world.flat \ {"below"}, "webp")
       ELSE lossless_skip(f, "webp")

\* if bins["cwebp"]: ... if ok and files_identical(in_path, webp_out):
lossless_webp(f) ==
    /\ mod = "lossless" /\ jpc[f] = "webp"
    /\ IF cfg.cwebp
       THEN lossless_encode(f, "webp_lossless", lossless_out(f, "_lossless.webp"),
                            world.flat, "lossy")
       ELSE lossless_skip(f, "lossy")

\* if args.allow_lossy and args.lossy_quality and bins["cwebp"]:
lossless_lossy(f) ==
    /\ mod = "lossless" /\ jpc[f] = "lossy"
    /\ IF cfg.allow_lossy /\ cfg.cwebp
       THEN lossless_encode(f, "webp_q", lossless_out(f, "_lossy.webp"),
                            world.flat \ {"below"}, "select")
       ELSE lossless_skip(f, "select")

\* The selection loop without its size filter.
RECURSIVE lossless_best_any_size(_, _, _, _, _)
lossless_best_any_size(cands, i, best, F, target_kb) ==
    IF i > Len(cands) THEN best
    ELSE LET c == cands[i]
             size == F[c.path].size
         IN  IF ~exists(F, c.path)
             THEN lossless_best_any_size(cands, i + 1, best, F, target_kb)
             ELSE IF best = NoCand \/ size < best.bytes
             THEN lossless_best_any_size(cands, i + 1, [c EXCEPT !.bytes = size],
                                         F, target_kb)
             ELSE lossless_best_any_size(cands, i + 1, best, F, target_kb)

\* best = None
\* for method, file, ok, note in candidates:
\*     if not ok or not file.exists(): continue
\*     size = file.stat().st_size
\*     if args.target_kb and size > args.target_kb * 1024: continue
\*     if not best or size < best["final_size"]: best = {...}
RECURSIVE lossless_best(_, _, _, _, _)
lossless_best(cands, i, best, F, target_kb) ==
    IF i > Len(cands) THEN best
    ELSE LET c == cands[i]
             size == F[c.path].size
         IN  IF ~exists(F, c.path)
             THEN lossless_best(cands, i + 1, best, F, target_kb)
             ELSE IF target_kb # 0 /\ size > target_kb * KB
             THEN lossless_best(cands, i + 1, best, F, target_kb)
             ELSE IF best = NoCand \/ size < best.bytes
             THEN lossless_best(cands, i + 1, [c EXCEPT !.bytes = size], F, target_kb)
             ELSE lossless_best(cands, i + 1, best, F, target_kb)

\* compress_to_webp_target(..., min_q=30, max_q=95, step=5)
ForcedMinQ == 30
ForcedMaxQ == 95
ForcedStep == 5
ForcedQs == {q \in ForcedMinQ..ForcedMaxQ : (ForcedMaxQ - q) % ForcedStep = 0}

\* What cwebp makes of the input at each quality of the forced path, in KB
\* (NoneVal: the encode fails): nothing at all, files that never fit, or files
\* of sz KB from quality 60 down and larger ones above it.
ForcedEnc(o, sz, target_kb) ==
    [q \in ForcedQs |->
        CASE o = "encfail" -> NoneVal
          [] o = "below" -> target_kb + sz
          [] OTHER -> IF q > 60 THEN target_kb + sz ELSE sz]

\* for q in range(max_q, min_q - 1, -step):
\*     ok, note = convert_to_webp(in_file, temp_out, cwebp_bin, lossless=False, q=q)
\*     if not ok: continue
\*     size_kb = os.path.getsize(temp_out) / 1024
\*     if size_kb <= target_kb: best_file, final_size, used_q = temp_out, size_kb, q; break
\* if best_file: shutil.move(best_file, out_file); return True, ..., int(final_size * 1024)
\* return False, None, None
\* temp_out is out_file itself; left is the size of what stays there.
RECURSIVE compress_to_webp_target(_, _, _, _)
compress_to_webp_target(enc, q, target_kb, left) ==
    IF q < ForcedMinQ
    THEN [ok |-> FALSE, q |-> NoneVal, bytes |-> NoneVal, left |-> left]
    ELSE IF enc[q] = NoneVal
    THEN compress_to_webp_target(enc, q - ForcedStep, target_kb, left)
    ELSE IF enc[q] <= target_kb
    THEN [ok |-> TRUE, q |-> q, bytes |-> enc[q] * KB, left |-> enc[q]]
    ELSE compress_to_webp_target(enc, q - ForcedStep, target_kb, enc[q])

\* The selection loop; then, if not best and args.target_kb and
\* bins["cwebp"]: compress_to_webp_target(in_path, out_dir/f"{base}.webp",
\* ...), which leaves its last encoding at that path whether it fits or not.
lossless_select(f) ==
    /\ mod = "lossless" /\ jpc[f] = "select"
    /\ \E best \in {lossless_best(jst[f].cands, 1, NoCand, fs, cfg.target_kb)} :
          IF best = NoCand /\ cfg.target_kb # 0 /\ cfg.cwebp
          THEN \E o \in world.flat, sz \in world.sizes :
                  LET forced_out == lossless_out(f, "webp")
                      r == compress_to_webp_target(ForcedEnc(o, sz, cfg.target_kb),
                                                   ForcedMaxQ, cfg.target_kb, NoneVal)
                      won == Cand("webp-q", r.bytes, forced_out, r.q)
                  IN  IF r.ok
                      THEN /\ fs' = fs_write(fs, forced_out, Content(f, r.bytes))
                           /\ jst' = [jst EXCEPT ![f].best = won]
                           /\ hist' = [hist EXCEPT
                                         ![f].touched = @ \cup {forced_out},
                                         ![f].own = Append(@, won)]
                      ELSE IF r.left # NoneVal
                      THEN /\ fs' = fs_write(fs, forced_out, Content(f, r.left * KB))
                           /\ jst' = [jst EXCEPT ![f].best = NoCand]
                           /\ Touch(f, {forced_out})
                      ELSE /\ jst' = [jst EXCEPT ![f].best = NoCand]
                           /\ UNCHANGED <<fs, hist>>
          ELSE /\ jst' = [jst EXCEPT ![f].best = best]
               /\ UNCHANGED <<fs, hist>>
    /\ jpc' = [jpc EXCEPT ![f] = "finish"]
    /\ UNCHANGED <<dirs, fut>>

\* if not best: unlink every candidate; return {... "method": "none", ...}
\* final_out = out_dir / in_path.name; shutil.move(best["file"], final_out)
\* for _, f, _, _ in candidates: if f.exists() and f != final_out: f.unlink()
lossless_finish(f) ==
    /\ mod = "lossless" /\ jpc[f] = "finish"
    /\ LET best == jst[f].best
           paths == {jst[f].cands[i].path : i \in 1..Len(jst[f].cands)}
           final_out == [dir |-> OutDir, name |-> in_name(f)]
       IN  IF best = NoCand
           THEN /\ fs' = fs_remove(fs, paths)
                /\ Touch(f, paths \cap DOMAIN fs)
                /\ JobReturns(f, [jst[f].res EXCEPT
                                    !.error = "No valid compression met criteria"])
           ELSE IF exists(fs, best.path)
           THEN /\ fs' = fs_remove(fs_move(fs, best.path, final_out),
                                   paths \ {final_out})
                /\ Touch(f, {best.path, final_out} \cup (paths \cap DOMAIN fs))
                /\ JobReturns(f, [jst[f].res EXCEPT !.method = best.fmt,
                                                    !.final = best.bytes])
           ELSE JobRaises(f) /\ UNCHANGED <<fs, hist>>
    /\ UNCHANGED <<dirs, jst>>

(***************************************************************************)
(* jpeg_binary_search.process_file                                         *)
(***************************************************************************)
JpegArgs == [target_butter |-> 0, use_ssim |-> cfg.use_ssim,
             target_ssim |-> TargetSsim, target_psnr |-> TargetPsnr]

\* kb_to_bytes(kb)
kb_to_bytes(kb) == kb * KB

\* result = {..., "original_bytes": int(in_path.stat().st_size), ...}:
\* outside the try block.
jpegbs_stat(f) ==
    /\ mod = "jpeg_binary_search" /\ jpc[f] = "stat"
    /\ \E stat_ok \in Ok("stat") :
          IF stat_ok
          THEN /\ jpc' = [jpc EXCEPT ![f] = "mkwork"]
               /\ jst' = [jst EXCEPT ![f].res = [NoRes EXCEPT !.file = f]]
               /\ UNCHANGED fut
          ELSE JobRaises(f) /\ UNCHANGED jst
    /\ UNCHANGED <<fs, dirs, hist>>

\* tmp_root = Path(tempfile.mkdtemp(prefix="jpgopt_"))
jpegbs_mkwork(f) ==
    /\ mod = "jpeg_binary_search" /\ jpc[f] = "mkwork"
    /\ LET d == mkdtemp("jpgopt_", f, jst[f].n)
       IN  /\ dirs' = fs_write(dirs, d, f)
           /\ jst' = [jst EXCEPT ![f].work = d, ![f].n = @ + 1]
           /\ hist' = [hist EXCEPT ![f].ev = Append(@, "mkdtemp")]
    /\ jpc' = [jpc EXCEPT ![f] = "resize"]
    /\ UNCHANGED <<fs, fut>>

\* resized, work_in = resize_orientation_aware_r2(in_path, tmp_root / name)
jpegbs_resize(f) ==
    /\ mod = "jpeg_binary_search" /\ jpc[f] = "resize"
    /\ \E ok \in Ok("resize") :
          LET p == [dir |-> jst[f].work, name |-> in_name(f)]
          IN  IF ok
              THEN /\ fs' = fs_write(fs, p, Content(f, OrigBytes * KB))
                   /\ jst' = [jst EXCEPT ![f].work_in = TRUE]
                   /\ Touch(f, {p})
              ELSE UNCHANGED <<fs, jst, hist>>
    /\ jpc' = [jpc EXCEPT ![f] = "search"]
    /\ UNCHANGED <<dirs, fut>>

\* search = find_best_jpeg(work_in, in_path, tmp_root, min_q, max_q, ...):
\* it leaves cand_q{mid}.jpg in tmp_root for every midpoint that encodes.
\* q = int(search["q"]); cand_path = ...; cand_bytes = cand_path.stat()
jpegbs_search(f) ==
    /\ mod = "jpeg_binary_search" /\ jpc[f] = "search"
    /\ \E env \in world.envs, sz \in world.sizes :
        /\ (~jst[f].work_in) => env = "encfail"
        /\ \E s \in {run_search("find_best_jpeg", JpegArgs,
                                search_init(cfg.min_q, cfg.max_q), env,
                                cfg.min_q, cfg.max_q)} :
            \E cs \in {{Path(jst[f].work, "cand_q", q, ".jpg") : q \in s.cands}} :
              LET r == search_result(s)
                  c == Cand("jpeg", kb_to_bytes(sz),
                            Path(jst[f].work, "cand_q", r.q, ".jpg"), r.q)
              IN  /\ fs' = [x \in (DOMAIN fs) \cup cs |->
                               IF x \in cs THEN Content(f, kb_to_bytes(sz)) ELSE fs[x]]
                  /\ jst' = [jst EXCEPT ![f].best = IF r.success THEN c ELSE NoCand,
                                        ![f].q_try = r.q - 1]
                  /\ hist' = [hist EXCEPT
                               ![f].touched = @ \cup cs,
                               ![f].ev = Append(@, "encode"),
                               ![f].own = IF r.success THEN Append(@, c) ELSE @]
                  /\ jpc' = [jpc EXCEPT ![f] =
                               IF ~r.success THEN "fallback"
                               ELSE IF cfg.target_size_kb # 0
                                       /\ c.bytes > kb_to_bytes(cfg.target_size_kb)
                               THEN "descent" ELSE "move"]
    /\ UNCHANGED <<dirs, fut>>

\* if not search.get("success"): save_jpeg_pillow(work_in, fallback, q=
\* args.fallback_q) and move it to out_dir / in_path.name, or copy the input
\* there; the result carries no error.
jpegbs_fallback(f) ==
    /\ mod = "jpeg_binary_search" /\ jpc[f] = "fallback"
    /\ \E o \in world.flat \ {"below"}, sz \in world.sizes :
          LET final_path == [dir |-> OutDir, name |-> in_name(f)]
              c == Cand("fallback", kb_to_bytes(sz), final_path, cfg.fallback_q)
          IN  /\ (~jst[f].work_in) => o = "encfail"
              /\ IF o = "ok"
                 THEN /\ fs' = fs_write(fs, final_path, Content(f, kb_to_bytes(sz)))
                      /\ jst' = [jst EXCEPT ![f].best = c, ![f].out = final_path]
                      /\ hist' = [hist EXCEPT ![f].touched = @ \cup {final_path},
                                              ![f].own = Append(@, c)]
                      /\ jpc' = [jpc EXCEPT ![f] = "stat_out"]
                 ELSE IF world.in_place
                 THEN /\ jst' = [jst EXCEPT ![f].res.error = "exception"]
                      /\ jpc' = [jpc EXCEPT ![f] = "finally"]
                      /\ UNCHANGED <<fs, hist>>
                 ELSE /\ fs' = fs_write(fs, final_path, Content(f, OrigBytes * KB))
                      /\ jst' = [jst EXCEPT ![f].res.method = "copy",
                                            ![f].res.final = OrigBytes * KB]
                      /\ Touch(f, {final_path})
                      /\ jpc' = [jpc EXCEPT ![f] = "finally"]
    /\ UNCHANGED <<dirs, fut>>

\* while q_try >= args.min_q: one iteration of the size-target descent.
\* The encode fails or the encoding misses the threshold (break); or it
\* passes: cand_path = try_path, q = q_try, and the loop ends when the file
\* fits the target.  The encoder gives a lower quality a file no longer
\* than the one of the quality before.
jpegbs_descent(f) ==
    /\ mod = "jpeg_binary_search" /\ jpc[f] = "descent"
    /\ IF jst[f].q_try >= cfg.min_q
       THEN \E o \in world.flat,
               sz \in {x \in world.sizes : kb_to_bytes(x) <= jst[f].best.bytes} :
              LET try_path == Path(jst[f].work, "try_q", jst[f].q_try, ".jpg")
                  c == Cand("jpeg", kb_to_bytes(sz), try_path, jst[f].q_try)
              IN  CASE o = "encfail" ->
                         /\ jpc' = [jpc EXCEPT ![f] = "move"]
                         /\ UNCHANGED <<fs, jst, hist>>
                    [] o = "below" ->
                         /\ fs' = fs_write(fs, try_path, Content(f, kb_to_bytes(sz)))
                         /\ Touch(f, {try_path})
                         /\ jpc' = [jpc EXCEPT ![f] = "move"]
                         /\ UNCHANGED jst
                    [] OTHER ->
                         /\ fs' = fs_write(fs, try_path, Content(f, kb_to_bytes(sz)))
                         /\ jst' = [jst EXCEPT ![f].best = c, ![f].q_try = @ - 1]
                         /\ hist' = [hist EXCEPT ![f].touched = @ \cup {try_path},
                                                 ![f].own = Append(@, c)]
                         /\ jpc' = [jpc EXCEPT ![f] =
                                      IF c.bytes <= kb_to_bytes(cfg.target_size_kb)
                                      THEN "move" ELSE "descent"]
       ELSE /\ jpc' = [jpc EXCEPT ![f] = "move"]
            /\ UNCHANGED <<fs, jst, hist>>
    /\ UNCHANGED <<dirs, fut>>

\* final_out = out_dir / in_path.with_suffix(".jpg").name
final_out(f) == Path(OutDir, stem(f), 0, "jpg")

\* A promotion of the file the descent wrote last, passed or not.
jpegbs_move_last_try(f) ==
    /\ mod = "jpeg_binary_search" /\ jpc[f] = "move"
    /\ LET last == Path(jst[f].work, "try_q", jst[f].q_try, ".jpg")
           src == IF exists(fs, last) THEN last ELSE jst[f].best.path
       IN  /\ fs' = fs_move(fs, src, final_out(f))
           /\ Touch(f, {src, final_out(f)})
           /\ jpc' = [jpc EXCEPT ![f] = "stat_out"]
           /\ jst' = [jst EXCEPT ![f].out = final_out(f)]
    /\ UNCHANGED <<dirs, fut>>

\* shutil.move(str(cand_path), str(final_out)); except Exception as e:
\* result["error"] = str(e)
jpegbs_move(f) ==
    /\ mod = "jpeg_binary_search" /\ jpc[f] = "move"
    /\ \E io_ok \in Ok("io") :
          IF io_ok
          THEN /\ fs' = fs_move(fs, jst[f].best.path, final_out(f))
               /\ Touch(f, {jst[f].best.path, final_out(f)})
               /\ jpc' = [jpc EXCEPT ![f] = "stat_out"]
               /\ jst' = [jst EXCEPT ![f].out = final_out(f)]
          ELSE /\ jst' = [jst EXCEPT ![f].res.error = "exception"]
               /\ jpc' = [jpc EXCEPT ![f] = "finally"]
               /\ UNCHANGED <<fs, hist>>
    /\ UNCHANGED <<dirs, fut>>

\* result["final_bytes"] = int(final_out.stat().st_size) (and final_path
\* on the fallback path): the size of whatever is at that path now;
\* result["quality"] = q
jpegbs_stat_out(f) ==
    /\ mod = "jpeg_binary_search" /\ jpc[f] = "stat_out"
    /\ IF exists(fs, jst[f].out)
       THEN jst' = [jst EXCEPT ![f].res.method = jst[f].best.fmt,
                               ![f].res.q = jst[f].best.q,
                               ![f].res.final = fs[jst[f].out].size]
       ELSE jst' = [jst EXCEPT ![f].res.error = "exception"]
    /\ jpc' = [jpc EXCEPT ![f] = "finally"]
    /\ UNCHANGED <<fs, dirs, fut, hist>>

\* finally: try: shutil.rmtree(str(tmp_root)) except: pass
jpegbs_finally(f) ==
    /\ mod = "jpeg_binary_search" /\ jpc[f] = "finally"
    /\ fs' = fs_rmtree(fs, jst[f].work)
    /\ dirs' = fs_remove(dirs, {jst[f].work})
    /\ Touch(f, {p \in DOMAIN fs : p.dir = jst[f].work})
    /\ JobReturns(f, jst[f].res)
    /\ UNCHANGED jst

(***************************************************************************)
(* run(): the pool and the as_completed loop.                              *)
(***************************************************************************)
\* A pool that starts a job as soon as it is submitted.
StartJobAtOnce(f) ==
    /\ jpc[f] = "queued"
    /\ jpc' = [jpc EXCEPT ![f] = "stat"]
    /\ UNCHANGED <<jst, fs, dirs, fut, results, seen, rpc, hist>>

\* A worker of ThreadPoolExecutor(max_workers=args.workers) takes a job.
StartJob(f) ==
    /\ jpc[f] = "queued"
    /\ Cardinality(Running) < workers
    /\ jpc' = [jpc EXCEPT ![f] = "stat"]
    /\ UNCHANGED <<jst, fs, dirs, fut, results, seen, rpc, hist>>

\* for fut in as_completed(futures): results.append(fut.result())
CollectResult(f) ==
    /\ rpc = "collect" /\ f \notin seen
    /\ fut[f].kind = "returned"
    /\ results' = Append(results, fut[f].res)
    /\ seen' = seen \cup {f}
    /\ UNCHANGED <<jpc, jst, fs, dirs, fut, rpc, hist>>

\* fut.result() re-raises the job's exception.  perceptual and lossless
\* catch it and log it; jpeg_binary_search and hybrid_perceptual do not, so
\* it leaves the loop and run().
CollectRaised(f) ==
    /\ rpc = "collect" /\ f \notin seen
    /\ fut[f].kind = "raised"
    /\ seen' = seen \cup {f}
    /\ rpc' = IF mod \in {"perceptual", "lossless"} THEN "collect" ELSE "crashed"
    /\ UNCHANGED <<jpc, jst, fs, dirs, fut, results, hist>>

\* The loop ends when every future has been consumed.
RunDone ==
    /\ rpc = "collect" /\ seen = files
    /\ rpc' = "done"
    /\ UNCHANGED <<jpc, jst, fs, dirs, fut, results, seen, hist>>

JobStep(f) ==
    \/ hybrid_stat(f) \/ hybrid_mkwork(f) \/ hybrid_resize(f)
    \/ hybrid_jpeg(f) \/ hybrid_webp(f) \/ hybrid_avif(f)
    \/ hybrid_select(f) \/ hybrid_finally(f)
    \/ perceptual_stat(f) \/ perceptual_resize(f)
    \/ perceptual_jpeg(f) \/ perceptual_jpeg_size(f)
    \/ perceptual_webp(f) \/ perceptual_webp_size(f)
    \/ perceptual_avif(f) \/ perceptual_avif_size(f)
    \/ perceptual_select(f) \/ perceptual_cleanup(f)
    \/ lossless_stat(f) \/ lossless_pillow(f) \/ lossless_oxipng(f)
    \/ lossless_zopfli(f) \/ lossless_webp(f) \/ lossless_lossy(f)
    \/ lossless_select(f) \/ lossless_finish(f)
    \/ jpegbs_stat(f) \/ jpegbs_mkwork(f) \/ jpegbs_resize(f)
    \/ jpegbs_search(f) \/ jpegbs_fallback(f) \/ jpegbs_descent(f)
    \/ jpegbs_move(f) \/ jpegbs_stat_out(f) \/ jpegbs_finally(f)

SearchIdle ==
    /\ fn = "none" /\ args = HybridArgs /\ lo0 = 0 /\ hi0 = 0 /\ cls = <<>>
    /\ srch = search_init(0, 0) /\ spc = "idle" /\ sres = NoResult /\ evald = <<>>
    /\ met = NoMetrics /\ att = NoAttempt /\ scan = NoScan

\* The arguments and binaries of a run.
Cfgs(M) ==
    CASE M = "hybrid_perceptual" ->
            [mode : {"jpeg", "best"}, avifenc : BOOLEAN,
             min_q : {DefaultMinQ}, max_q : {DefaultMaxQ}]
      [] M = "perceptual" ->
            [resize : BOOLEAN, cjpeg : BOOLEAN, webp : BOOLEAN, avif : BOOLEAN,
             cv2 : BOOLEAN]
      [] M = "lossless" ->
            [oxipng : BOOLEAN, zopflipng : BOOLEAN, cwebp : BOOLEAN,
             allow_lossy : BOOLEAN, target_kb : {0, 1}]
      [] OTHER ->
            [min_q : {DefaultMinQ}, max_q : {DefaultMaxQ}, fallback_q : {DefaultMaxQ},
             use_ssim : BOOLEAN, target_size_kb : {0, 1}]

\* Those a batch of several jobs is explored with.
BatchCfgs(M) ==
    CASE M = "hybrid_perceptual" ->
            {c \in Cfgs(M) : ~c.avifenc}
      [] M = "perceptual" ->
            {c \in Cfgs(M) : c.cjpeg /\ c.webp /\ ~c.avif /\ c.cv2}
      [] M = "lossless" ->
            {c \in Cfgs(M) : ~c.oxipng /\ ~c.zopflipng /\ c.cwebp /\ ~c.allow_lossy}
      [] OTHER ->
            {c \in Cfgs(M) : ~c.use_ssim /\ c.target_size_kb = 0}

Exts(M) ==
    CASE M = "perceptual" -> {"png", "jpg", "jpeg"}
      [] M = "lossless" -> {"png"}
      [] M = "jpeg_binary_search" -> {"jpg", "jpeg"}
      [] OTHER -> {"png", "jpg", "jpeg"}

Batches(M, n) ==
    {B \in SUBSET {f \in FileUniverse : f[2] \in Exts(M)} :
        Cardinality(B) >= 1 /\ Cardinality(B) <= n}

BatchInitWith(M, C, n, w, W) ==
    /\ SearchIdle
    /\ world = W
    /\ mod = M
    /\ cfg \in C
    /\ files \in Batches(M, n)
    /\ workers = w
    /\ jpc = [f \in files |-> "queued"]
    /\ jst = [f \in files |-> JobInit]
    /\ fs = <<>>
    /\ dirs = <<>>
    /\ fut = [f \in files |-> Pending]
    /\ results = <<>>
    /\ seen = {}
    /\ rpc = "collect"
    /\ hist = [f \in files |-> HistInit]

\* What no step of a batch changes.
fixed == <<svars, mod, cfg, files, workers, world>>
runvars == <<results, seen, rpc>>

BatchNext ==
    \/ \E f \in files : StartJob(f) /\ UNCHANGED fixed
    \/ \E f \in files : JobStep(f) /\ UNCHANGED <<fixed, runvars>>
    \/ \E f \in files : CollectResult(f) /\ UNCHANGED fixed
    \/ \E f \in files : CollectRaised(f) /\ UNCHANGED fixed
    \/ RunDone /\ UNCHANGED fixed

\* One job at a time: a single file, a single worker.
JobInitState ==
    \E M \in Mods : BatchInitWith(M, Cfgs(M), 1, 1, FullWorld)
SpecJob == JobInitState /\ [][BatchNext]_vars

\* A batch on a pool of MaxWorkers workers.
BatchInit ==
    \E M \in Mods : BatchInitWith(M, BatchCfgs(M), MaxFiles, MaxWorkers, SmallWorld)
SpecBatch == BatchInit /\ [][BatchNext]_vars

\* One job of a run whose output directory is its input directory: the
\* input files are in out_dir when the batch starts.
InPlaceWorld == [FullWorld EXCEPT !.in_place = TRUE]
InPlaceInit ==
    /\ SearchIdle
    /\ world = InPlaceWorld
    /\ mod \in Mods
    /\ cfg \in Cfgs(mod)
    /\ files \in Batches(mod, 1)
    /\ workers = 1
    /\ jpc = [f \in files |-> "queued"]
    /\ jst = [f \in files |-> JobInit]
    /\ fs = [p \in {InPath(f) : f \in files} |-> Original(CHOOSE f \in files : InPath(f) = p)]
    /\ dirs = <<>>
    /\ fut = [f \in files |-> Pending]
    /\ results = <<>>
    /\ seen = {}
    /\ rpc = "collect"
    /\ hist = [f \in files |-> HistInit]
SpecInPlace == InPlaceInit /\ [][BatchNext]_vars

\* The pool itself: batches on pools of every size up to MaxWorkers, against
\* encoders that succeed and input files that may have gone.
PoolWorld == [envs |-> {"low"}, flat |-> {"ok"}, sizes |-> {1}, faults |-> {"stat"},
              det |-> <<>>,
              in_place |-> FALSE]
PoolInit ==
    \E M \in {"jpeg_binary_search", "hybrid_perceptual"}, w \in 1..MaxWorkers :
        BatchInitWith(M, BatchCfgs(M), MaxFiles, w, PoolWorld)
SpecPool == PoolInit /\ [][BatchNext]_vars

\* The same hybrid_perceptual job run twice, with encoders and metrics that
\* are deterministic (one behaviour and one encoded size per format) and no
\* I/O fault; before the second run the output directory is emptied.
DetWorlds ==
    {[envs |-> {}, flat |-> {}, sizes |-> {}, faults |-> {}, det |-> d,
      in_place |-> FALSE] :
        d \in [{"jpg", "webp", "avif"} ->
                  [env : {"encfail", "low", "none"}, sz : 1..MaxSize]]}

RerunInit ==
    \E W \in DetWorlds :
        BatchInitWith("hybrid_perceptual", Cfgs("hybrid_perceptual"), 1, 1, W)
           /\ files = {<<"a", "png">>}

\* run() is called again once it has ended: a fresh pool, the same files,
\* arguments and tools; mkdtemp goes on giving names not used before.
Rerun ==
    /\ rpc = "done" /\ Len(results) = Cardinality(files)
    /\ rpc' = "collect"
    /\ seen' = {}
    /\ jpc' = [f \in files |-> "queued"]
    /\ jst' = [f \in files |-> [JobInit EXCEPT !.n = jst[f].n]]
    /\ fut' = [f \in files |-> Pending]
    /\ fs' = fs_rmtree(fs, OutDir)
    /\ hist' = [f \in files |-> HistInit]
    /\ UNCHANGED <<dirs, results>>

RerunNext ==
    \/ \E f \in files : StartJob(f) /\ UNCHANGED fixed
    \/ \E f \in files : JobStep(f) /\ UNCHANGED <<fixed, runvars>>
    \/ \E f \in files : CollectResult(f) /\ UNCHANGED fixed
    \/ RunDone /\ UNCHANGED fixed
    \/ Rerun /\ UNCHANGED fixed

SpecRerun == RerunInit /\ [][RerunNext]_vars

(***************************************************************************)
(* Properties of the quality search.                                       *)
(***************************************************************************)
\* The qualities of the starting range that encode and pass the threshold.
PassingInRange == {q \in lo0..hi0 : cls[q] = "pass"}

\* A monotonic setup: every encode in the range succeeds, some quality
\* passes and every higher quality of the range passes too.
Monotonic ==
    /\ PassingInRange # {}
    /\ \A q \in lo0..hi0 : cls[q] # "encfail"
    /\ \A q \in PassingInRange : \A r \in q..hi0 : cls[r] = "pass"

MinOf(S) == CHOOSE x \in S : \A y \in S : x <= y

\* The midpoints that were evaluated and passed during the search.
PassedMids == {evald[i].q : i \in {k \in 1..Len(evald) : evald[k].pass}}

\* C1: with a monotonic pass predicate and every encode succeeding, the
\* search (binary_search_quality and find_best_jpeg) returns success with
\* the smallest passing quality of the range.
C1_MonotonicFindsMinimum ==
    (spc = "done" /\ Monotonic) =>
        (sres.success /\ sres.q = MinOf(PassingInRange))

\* The scenario of the specification: range [30,95], passes iff q >= 52,
\* and the search has returned 52.
C1_Witness ==
    /\ spc = "done"
    /\ lo0 = DefaultMinQ /\ hi0 = DefaultMaxQ
    /\ cls = MonoCls(DefaultMinQ, DefaultMaxQ, 52)
    /\ sres = [success |-> TRUE, q |-> 52]

\* C9: the search returns success if and only if some midpoint it evaluated
\* encoded and passed the threshold; so it fails when no quality of the
\* range passes, and when every encode fails.
C9_SuccessIffPassedMidpoint ==
    spc = "done" =>
        /\ sres.success <=> (PassedMids # {})
        /\ PassingInRange = {} => ~sres.success
        /\ (\A i \in 1..Len(evald) : ~evald[i].ok) => ~sres.success

\* A search that succeeded although one of its encodes failed and one of
\* its encoded midpoints missed the threshold.
C9_Witness ==
    /\ spc = "done"
    /\ sres.success
    /\ \E i \in 1..Len(evald) : ~evald[i].ok
    /\ \E i \in 1..Len(evald) : evald[i].ok /\ ~evald[i].pass

\* C10: whatever the pattern of encode and threshold outcomes, a successful
\* search returns the smallest quality among the midpoints that were
\* evaluated and passed.
C10_ReturnsSmallestPassedMidpoint ==
    (spc = "done" /\ sres.success) =>
        (sres.q \in PassedMids /\ \A q \in PassedMids : sres.q <= q)

\* A successful search over a non-monotonic pattern with two passed
\* midpoints.
C10_Witness ==
    /\ spc = "done" /\ sres.success
    /\ Cardinality(PassedMids) >= 2
    /\ ~Monotonic
    /\ \E q \in lo0..hi0 : q > sres.q /\ cls[q] # "pass"

\* floor(log2(n)) for n >= 1
RECURSIVE Log2Floor(_)
Log2Floor(n) == IF n <= 1 THEN 0 ELSE 1 + Log2Floor(n \div 2)

\* C11: on a range [lo, hi] with lo <= hi the search makes at most
\* floor(log2(hi - lo + 1)) + 1 encode attempts, whatever their outcomes,
\* and never encodes the same quality twice.
C11_LogarithmicEncodes ==
    lo0 <= hi0 =>
        /\ Len(evald) <= Log2Floor(hi0 - lo0 + 1) + 1
        /\ \A i, j \in 1..Len(evald) : i # j => evald[i].q # evald[j].q

\* A search over [30,95] that returned after exactly 7 encode attempts.
C11_Witness ==
    /\ spc = "done"
    /\ lo0 = DefaultMinQ /\ hi0 = DefaultMaxQ
    /\ Len(evald) = Log2Floor(hi0 - lo0 + 1) + 1
    /\ Len(evald) = 7

\* C12: every quality handed to the encoder lies in the range [lo, hi] the
\* search was started with.
C12_EvaluatesWithinRange ==
    \A i \in 1..Len(evald) : lo0 <= evald[i].q /\ evald[i].q <= hi0

\* A finished search that encoded both ends of its range.
C12_Witness ==
    /\ spc = "done"
    /\ lo0 < hi0
    /\ \E i, j \in 1..Len(evald) : evald[i].q = lo0 /\ evald[j].q = hi0

\* The step under way is an encode attempt that fails.
EncodeFails ==
    /\ Len(evald') = Len(evald) + 1
    /\ ~evald'[Len(evald')].ok

\* C13: a failed encode does not end the search: it records no candidate,
\* leaves best and hi alone and continues with lo = mid + 1; and a search
\* that met a passing midpoint, before or after failed encodes, returns
\* success.
C13_EncodeFailureContinues ==
    /\ [][EncodeFails =>
            /\ srch'.lo = mid_of(srch) + 1
            /\ srch'.hi = srch.hi
            /\ srch'.best = srch.best
            /\ srch'.cands = srch.cands
            /\ spc' = "loop"]_vars
    /\ [](spc = "done" /\ PassedMids # {} => sres.success)

\* A search that returned the candidate it found after a failed encode.
C13_Witness ==
    /\ spc = "done" /\ sres.success
    /\ \E i, j \in 1..Len(evald) :
          i < j /\ ~evald[i].ok /\ evald[j].pass /\ evald[j].q = sres.q

\* C21: a search started on an empty range (lower > upper) makes no encode
\* attempt and returns failure.
C21_EmptyRangeFailsAtOnce ==
    lo0 > hi0 =>
        /\ evald = <<>>
        /\ srch = search_init(lo0, hi0)
        /\ spc = "done" => sres = [success |-> FALSE, q |-> NoneVal]

C21_Witness ==
    /\ lo0 > hi0 /\ spc = "done" /\ ~sres.success /\ evald = <<>>

\* The threshold that decides on the metrics m: the butteraugli distance if
\* it is enabled and m has it, otherwise the SSIM if it is enabled and m has
\* it, otherwise the PSNR.  find_best_jpeg has no butteraugli threshold.
Authoritative(m) ==
    IF fn = "binary_search_quality" /\ args.target_butter # 0 /\ m.butter # NoneVal
    THEN "butter"
    ELSE IF args.use_ssim /\ m.ssim # NoneVal THEN "ssim" ELSE "psnr"

\* What that threshold alone says of m.
Verdict(m) ==
    CASE Authoritative(m) = "butter" -> m.butter <= args.target_butter
      [] Authoritative(m) = "ssim" -> m.ssim >= args.target_ssim
      [] OTHER -> m.psnr # NoneVal /\ m.psnr >= args.target_psnr

\* C14: the pass or fail of a search step is the verdict of one threshold,
\* chosen in the order butteraugli, SSIM, PSNR among those enabled whose
\* metric value is available; the step records the midpoint as best exactly
\* when that threshold passes, and the search goes on either way.
C14_ThresholdPriority ==
    Len(evald) >= 1 =>
        LET last == evald[Len(evald)] IN
        /\ last.pass = Verdict(met)
        /\ (spc = "loop") => ((srch.best = last.q) <=> Verdict(met))
        /\ (spc = "loop" /\ ~Verdict(met)) => srch.lo = last.q + 1

\* binary_search_quality with the butteraugli threshold enabled but no
\* butteraugli value: the SSIM threshold decided, and passed a midpoint that
\* the PSNR threshold would have failed.
C14_Witness ==
    /\ fn = "binary_search_quality"
    /\ Len(evald) >= 1
    /\ args.target_butter # 0 /\ met.butter = NoneVal
    /\ args.use_ssim /\ met.ssim >= args.target_ssim
    /\ met.psnr < args.target_psnr
    /\ evald[Len(evald)].pass
    /\ srch.best = evald[Len(evald)].q

\* The last encode attempt, where attempts are followed.
LastAttempt == evald[Len(evald)]

\* C15: an encode that reports success while its output file is missing or
\* has zero bytes is a failed attempt, whichever encoder made it: the
\* midpoint is never recorded as the search's candidate.
C15_EmptyOutputNeverCandidate ==
    (Len(att.procs) >= 1 /\ att.out \in {"missing", "zero"}) =>
        /\ ~LastAttempt.pass
        /\ srch.best # LastAttempt.q

\* C20: an encoder call that times out is killed and run_cmd returns
\* (False, message): the attempt is a failed one, nothing is recorded for
\* it, the search goes on from mid + 1 and ends with a result; a
\* butteraugli call that times out is killed and leaves the butteraugli
\* value unavailable, so that the next threshold decides.
C20_TimeoutIsFailedAttempt ==
    /\ \A i \in 1..Len(att.procs) :
          att.procs[i] = "timeout" => (~evald[i].ok /\ ~evald[i].pass)
    /\ (Len(att.procs) >= 1 /\ att.procs[Len(att.procs)] = "timeout") =>
          /\ att.enc = Ran(FALSE, "Command timed out", TRUE)
          /\ srch.best # LastAttempt.q
          /\ LastAttempt.q \notin srch.cands
          /\ srch.lo = LastAttempt.q + 1
          /\ spc \in {"loop", "done"}
          /\ spc = "done" => sres = search_result(srch)
    /\ att.bproc = "timeout" =>
          /\ att.but = Ran(FALSE, "Command timed out", TRUE)
          /\ met.butter = NoneVal
          /\ Authoritative(met) # "butter"
          /\ LastAttempt.pass = Verdict(met)

\* The first encoder call timed out, the second attempt passed and the
\* search returned it.
C20_Witness ==
    /\ spc = "done" /\ sres.success
    /\ Len(att.procs) = 2 /\ att.procs[1] = "timeout"
    /\ evald[2].pass /\ sres.q = evald[2].q

(***************************************************************************)
(* Properties of the best-of selection and of a job's artifacts.           *)
(***************************************************************************)
\* The jobs whose best-of selection has chosen a candidate.
Selected(f) ==
    CASE mod = "hybrid_perceptual" ->
            jpc[f] = "finally" /\ jst[f].cands # <<>> /\ jst[f].res.error = ""
      [] mod = "perceptual" -> jpc[f] = "cleanup"
      [] mod = "lossless" -> jpc[f] = "finish" /\ jst[f].best # NoCand
      [] OTHER -> FALSE

\* The size of the i-th successful candidate of job f at the selection.
CandBytes(f, i) ==
    IF mod = "lossless" THEN fs[jst[f].cands[i].path].size
    ELSE jst[f].cands[i].bytes

\* The method and the size the selection of job f chose.
Chosen(f) ==
    IF mod = "lossless" THEN [fmt |-> jst[f].best.fmt, bytes |-> jst[f].best.bytes]
    ELSE [fmt |-> jst[f].res.method, bytes |-> jst[f].res.final]

\* C2: the best-of selection of a job picks a candidate whose size is the
\* minimum of the sizes of all its successful candidates, and among several
\* candidates of that size the one appended first.
C2_BestOfPicksFirstSmallest ==
    \A f \in files :
        Selected(f) =>
            LET n == Len(jst[f].cands) IN
            /\ \A k \in 1..n : Chosen(f).bytes <= CandBytes(f, k)
            /\ \A i \in 1..n :
                  (jst[f].cands[i].fmt = Chosen(f).fmt) =>
                      \A k \in 1..(i - 1) : CandBytes(f, k) > Chosen(f).bytes

\* A selection among at least two candidates of the same, smallest size,
\* which chose the first.
C2_Witness ==
    \E f \in files :
        /\ Selected(f)
        /\ Len(jst[f].cands) >= 2
        /\ CandBytes(f, 1) = CandBytes(f, 2)
        /\ \A k \in 1..Len(jst[f].cands) : CandBytes(f, 1) <= CandBytes(f, k)
        /\ Chosen(f).fmt = jst[f].cands[1].fmt

\* The files and directories a job made that are still there.
Artifacts(f) == {p \in DOMAIN fs : fs[p].by = f}
Directories(f) == {d \in DOMAIN dirs : dirs[d] = f}

\* The job returned a record with a winner.
HasWinner(f) ==
    /\ fut[f].kind = "returned"
    /\ fut[f].res.error = ""
    /\ fut[f].res.method \notin {"none", "copy"}

\* C3: when process_file has returned, no directory the job made is left,
\* and of the files it made at most one is left, in the output directory:
\* the winner's when there is a winner.
C3_OnlyWinnerRemains ==
    \A f \in files :
        fut[f].kind = "returned" =>
            /\ Directories(f) = {}
            /\ \A p \in Artifacts(f) : p.dir = OutDir
            /\ Cardinality(Artifacts(f)) <= 1
            /\ HasWinner(f) => Cardinality(Artifacts(f)) = 1

\* The job returned, its pipelines ran their encoders and none produced a
\* candidate; the returns after an I/O exception are left aside.
AllPipelinesFailed(f) ==
    /\ fut[f].kind = "returned"
    /\ \E i \in 1..Len(hist[f].ev) : hist[f].ev[i] = "encode"
    /\ hist[f].own = <<>>
    /\ fut[f].res.error # "exception"

\* C16: when every enabled pipeline of a job has failed, its result names no
\* chosen candidate, and once process_file has returned nothing the job
\* made is left in a temporary directory, nor any temporary directory of it.
C16_AllFailLeavesNoArtifact ==
    \A f \in files :
        AllPipelinesFailed(f) =>
            /\ fut[f].res.method \in {"none", "copy"}
            /\ fut[f].res.q = NoneVal
            /\ Directories(f) = {}
            /\ \A p \in Artifacts(f) : p.dir = OutDir

\* C17: when every pipeline of a job has failed, its result has no chosen
\* candidate, its error is "no pipeline met thresholds", and the output
\* directory holds an unchanged copy of the original under its own name.
C17_AllFailPreservesOriginal ==
    \A f \in files :
        AllPipelinesFailed(f) =>
            /\ fut[f].res.q = NoneVal
            /\ fut[f].res.error = "no pipeline met thresholds"
            /\ [dir |-> OutDir, name |-> in_name(f)] \in DOMAIN fs
            /\ fs[[dir |-> OutDir, name |-> in_name(f)]].size
                  \in {OrigBytes, OrigBytes * KB}

\* C18: a missing tool, a failed encode, an unavailable metric, a timeout
\* or an exhausted search never leaves process_file as an exception: a job
\* that met an unavailable metric returns a result.
C18_MetricUnavailableIsRecovered ==
    \A f \in files :
        (\E i \in 1..Len(hist[f].ev) : hist[f].ev[i] = "metric_unavailable") =>
            fut[f].kind # "raised"

\* The extension of the format of the winner a result names.
WinnerExt(method) ==
    CASE method \in {"jpg", "jpeg", "fallback"} -> "jpg"
      [] method \in {"webp", "webp_lossless", "webp_q", "webp-q"} -> "webp"
      [] method = "avif" -> "avif"
      [] OTHER -> "png"

\* C19: an input processed successfully, a pipeline's candidate winning, has
\* exactly one file in the output directory, named by the input's base name
\* and the extension of the winner's format.
C19_OneOutputNamedAfterWinner ==
    \A f \in files :
        (HasWinner(f) /\ fut[f].res.method # "fallback") =>
            {p \in Artifacts(f) : p.dir = OutDir}
                = {Path(OutDir, stem(f), 0, WinnerExt(fut[f].res.method))}

\* The pipelines whose encoder a job has called.
Encodes(f) == Cardinality({i \in 1..Len(hist[f].ev) : hist[f].ev[i] = "encode"})

B(x) == IF x THEN 1 ELSE 0

\* The pipelines of the run that are requested and whose tool was found.
\* (hybrid_perceptual falls back to Pillow for JPEG and WebP.)
EnabledPipelines ==
    CASE mod = "hybrid_perceptual" ->
            1 + B(cfg.mode = "best") + B(cfg.mode = "best" /\ cfg.avifenc)
      [] mod = "perceptual" -> B(cfg.cjpeg) + B(cfg.webp) + B(cfg.avif)
      [] mod = "lossless" ->
            1 + B(cfg.oxipng) + B(cfg.zopflipng) + B(cfg.cwebp)
              + B(cfg.allow_lossy /\ cfg.cwebp)
      [] OTHER -> 1

\* C22: an absent tool disables the pipelines that need it and nothing
\* else: a job that returns (other than on a failed resize) has attempted
\* every other pipeline, and the run is left only by a job's exception.
C22_AbsentToolDisablesOnlyItsPipelines ==
    /\ \A f \in files :
          (fut[f].kind = "returned" /\ fut[f].res.error # "Resize failed") =>
              Encodes(f) = EnabledPipelines
    /\ rpc = "crashed" => \E f \in seen : fut[f].kind = "raised"

\* perceptual without cjpeg, with cwebp and avifenc: both were attempted and
\* the run ended normally.
C22_Witness ==
    /\ mod = "perceptual" /\ ~cfg.cjpeg /\ cfg.webp /\ cfg.avif
    /\ rpc = "done"
    /\ \A f \in files : fut[f].kind = "returned" /\ Encodes(f) = 2

\* Every pipeline the run could attempt needs a tool that was not found.
HardDependencyMissing ==
    mod = "perceptual" /\ ~cfg.cjpeg /\ ~cfg.webp /\ ~cfg.avif

\* C23: when a hard dependency is missing, run fails before any job is
\* handed to the pool: no job ever leaves the queue.
C23_FailsFastOnHardDependency ==
    HardDependencyMissing =>
        /\ \A f \in files : jpc[f] = "queued" /\ fut[f] = Pending
        /\ results = <<>>

\* C24: at every moment of a batch the jobs inside process_file are at most
\* as many as the pool has workers (so that each can have a worker of its
\* own), and a job leaves the queue only when a worker is free.
C24_AtMostNJobsRunning ==
    /\ [](Cardinality(Running) <= workers)
    /\ [][\A f \in files :
            (jpc[f] = "queued" /\ jpc'[f] # "queued") =>
                Cardinality(Running) < workers]_vars

\* More files than workers: every worker is busy while a job waits.
C24_Witness ==
    /\ Cardinality(files) > workers
    /\ Cardinality(Running) = workers
    /\ \E f \in files : jpc[f] = "queued"

ScanStops == {q \in ScanQs : cls[q] = "fail"}
ScanReach ==
    {q \in ScanQs : \A r \in ScanStops : q >= r}
PassedBeforeStop == {q \in ScanReach : cls[q] = "pass"}

\* C29: the scan goes down from 90 in steps of 2, skips the qualities whose
\* encode fails and stops at the first encoded quality whose SSIM is below
\* the threshold; best_q is the lowest quality that passed before that, and
\* the function reports failure iff none did.
C29_ScanStopsAtFirstBelow ==
    /\ \A i \in 1..Len(scan.tried) :
          scan.tried[i] = ScanStart - (i - 1) * ScanStride
    /\ \A i \in 1..Len(scan.tried) : scan.tried[i] \in ScanReach
    /\ scan.pc \in {"final", "done", "raised"} =>
          /\ {scan.tried[i] : i \in 1..Len(scan.tried)} = ScanReach
          /\ scan.best_q = IF PassedBeforeStop = {} THEN NoneVal
                            ELSE MinOf(PassedBeforeStop)
    /\ scan.pc = "done" =>
          /\ scan.ret.ok <=> PassedBeforeStop # {}
          /\ scan.ret.ok => scan.ret.q = MinOf(PassedBeforeStop)

\* A failed encode was skipped, lower qualities passed after it, and the
\* scan stopped at an encoding below the threshold.
C29_Witness ==
    /\ scan.pc = "done" /\ scan.ret.ok
    /\ ScanStops # {}
    /\ \E q \in ScanReach : cls[q] = "encfail" /\ q > scan.ret.q
    /\ scan.ret.q < ScanStart

\* C26: whenever optimize_jpeg_advanced returns success, out_file holds the
\* encoding at the reported best_q, one that meets the SSIM threshold.
C26_SuccessLeavesBestEncoding ==
    (scan.pc = "done" /\ scan.ret.ok) =>
        /\ scan.out = Enc(scan.ret.q)
        /\ cls[scan.ret.q] = "pass"

(***************************************************************************)
(* Properties of jpeg_binary_search's size-target descent.                 *)
(***************************************************************************)
\* The job's search succeeded and its winner has been moved to the output.
Promoted(f) ==
    /\ mod = "jpeg_binary_search"
    /\ jpc[f] \in {"stat_out", "finally", "finished"}
    /\ jst[f].out = final_out(f)
    /\ jst[f].best.fmt = "jpeg"
    /\ fut[f].kind # "raised"

\* C27: after a successful search the descent ends, and the file promoted
\* is the encoding at the reported quality q, one that passed the
\* threshold, with min_q <= q <= the search's quality; the descent went on
\* only from passing candidates that did not fit the target size, one
\* quality at a time.
C27_DescentPromotesPassingEncoding ==
    \A f \in files :
        /\ (mod = "jpeg_binary_search" /\ jpc[f] \in {"descent", "move"}) =>
              LET own == hist[f].own IN
              /\ Len(own) >= 1 /\ jst[f].best = own[Len(own)]
              /\ \A i \in 1..(Len(own) - 1) :
                    /\ own[i + 1].q = own[i].q - 1
                    /\ own[i].bytes > kb_to_bytes(cfg.target_size_kb)
              /\ Len(own) > 1 => cfg.target_size_kb # 0
              /\ cfg.min_q <= jst[f].best.q /\ jst[f].best.q <= own[1].q
              /\ jst[f].q_try >= cfg.min_q - 1
              /\ jst[f].best.path \in
                    {Path(jst[f].work, "cand_q", jst[f].best.q, ".jpg"),
                     Path(jst[f].work, "try_q", jst[f].best.q, ".jpg")}
              /\ exists(fs, jst[f].best.path)
              /\ fs[jst[f].best.path].size = jst[f].best.bytes
        /\ Promoted(f) =>
              /\ exists(fs, final_out(f))
              /\ fs[final_out(f)].size = jst[f].best.bytes
              /\ ~exists(fs, jst[f].best.path)
              /\ (jpc[f] = "finished" /\ fut[f].res.error = "") =>
                    /\ fut[f].res.q = jst[f].best.q
                    /\ fut[f].res.final = jst[f].best.bytes

\* The descent went two qualities below the search's, stopped at an
\* encoding that missed the threshold, and the last passing one was
\* promoted.
C27_Witness ==
    \E f \in files :
        /\ Promoted(f) /\ jpc[f] = "finished" /\ fut[f].res.error = ""
        /\ Len(hist[f].own) = 3
        /\ fut[f].res.q = hist[f].own[1].q - 2
        /\ exists(fs, final_out(f))
        /\ Path(jst[f].work, "try_q", fut[f].res.q - 1, ".jpg") \in hist[f].touched

\* The file a lossless job has promoted: out_dir / in_path.name.
LosslessFinal(f) == [dir |-> OutDir, name |-> in_name(f)]

LosslessWon(f) ==
    /\ mod = "lossless" /\ cfg.target_kb # 0
    /\ fut[f].kind = "returned" /\ fut[f].res.error = ""
    /\ fut[f].res.method # "none"

\* C28: with a target size set, whenever a lossless job reports a method
\* other than 'none', the file it promoted is at most target_kb * 1024 bytes
\* and so is the size it reports, for a regular candidate as for the forced
\* lossy WebP, whose quality is one of 95, 90, ..., 30.
C28_PromotedFitsTarget ==
    \A f \in files :
        LosslessWon(f) =>
            /\ exists(fs, LosslessFinal(f))
            /\ fs[LosslessFinal(f)].size <= cfg.target_kb * KB
            /\ fut[f].res.final <= cfg.target_kb * KB
            /\ fut[f].res.method = "webp-q" => jst[f].best.q \in ForcedQs

\* Every regular candidate was over the target and the forced WebP won.
C28_Witness ==
    \E f \in files :
        /\ LosslessWon(f)
        /\ fut[f].res.method = "webp-q"
        /\ Len(jst[f].cands) >= 2
        /\ fs[LosslessFinal(f)].size = cfg.target_kb * KB

\* C30: no job writes to, moves or deletes its input file: whatever steps
\* the jobs have taken, in every mod and on every exit path, the input file
\* exists with the content it had before the batch started.
C30_InputNeverTouched ==
    \A f \in files :
        world.in_place => exists(fs, InPath(f)) /\ fs[InPath(f)] = Original(f)

(***************************************************************************)
(* Properties of the dispatcher.                                           *)
(***************************************************************************)
\* The records of the results list that are about file f.
RecordsOf(f) == {i \in 1..Len(results) : results[i].file = f}

\* C4: an exception raised by a job, collected by the dispatcher, does not
\* stop the collection and is recorded as the error of that job's record.
C4_ExceptionRecordedAsJobError ==
    \A f \in seen :
        fut[f].kind = "raised" =>
            /\ rpc # "crashed"
            /\ \E i \in RecordsOf(f) : results[i].error # ""

\* C5: when run has finished, it has finished normally, and the results hold
\* exactly one record for every input file, with a non-empty error for every
\* file whose job failed.
C5_OneRecordPerInput ==
    rpc \in {"done", "crashed"} =>
        /\ rpc = "done"
        /\ \A f \in files :
              /\ Cardinality(RecordsOf(f)) = 1
              /\ fut[f].kind = "raised" =>
                    \A i \in RecordsOf(f) : results[i].error # ""

\* The size of the output a job running alone reports: that of the
\* candidate its selection picks among the encodings the job itself made.
RECURSIVE first_smallest_within(_, _, _, _)
first_smallest_within(own, i, best, limit) ==
    IF i > Len(own) THEN best
    ELSE IF limit # 0 /\ own[i].bytes > limit
    THEN first_smallest_within(own, i + 1, best, limit)
    ELSE IF best = NoCand \/ own[i].bytes < best.bytes
    THEN first_smallest_within(own, i + 1, own[i], limit)
    ELSE first_smallest_within(own, i + 1, best, limit)

AloneBytes(f) ==
    LET own == hist[f].own IN
    CASE mod = "jpeg_binary_search" -> own[Len(own)].bytes
      [] mod = "lossless" ->
            first_smallest_within(own, 1, NoCand, cfg.target_kb * KB).bytes
      [] OTHER -> first_smallest_within(own, 1, NoCand, 0).bytes

\* C6: whatever the interleaving, every job ends as it does when the jobs
\* run one at a time: it raises only before it has encoded anything, and the
\* record of a job with a winner reports the size that job reports alone.
C6_ResultsAsSequential ==
    \A f \in files :
        /\ fut[f].kind = "raised" => hist[f].own = <<>>
        /\ HasWinner(f) => fut[f].res.final = AloneBytes(f)

\* C7: no two jobs of a batch create, overwrite, move or delete the same
\* path.
C7_NoSharedPath ==
    \A f, g \in files :
        f # g => hist[f].touched \cap hist[g].touched = {}

\* C8: a job makes its own temporary directory before it encodes anything,
\* every temporary file it makes is inside that directory, and no directory
\* of the job is left when the job has ended.
C8_OwnTempDirectory ==
    \A f \in files :
        /\ hist[f].ev # <<>> => hist[f].ev[1] = "mkdtemp"
        /\ \A p \in hist[f].touched : p.dir # OutDir => p.dir = jst[f].work
        /\ jpc[f] = "finished" => Directories(f) = {}

=============================================================================
